---------------------------- MODULE Spec2Model ----------------------------
(***************************************************************************)
(* A model of the irradiance back end of slingjie/PVgis: the request       *)
(* schemas, the three cached API routes (geocode, tmy, series), the        *)
(* in-memory fingerprint cache, the transport client's retry loop and the  *)
(* PVGIS / CAMS adapters.                                                  *)
(*                                                                         *)
(* Strings are sequences of tokens.  Caller-supplied strings are given one *)
(* character per token; text the program itself writes ("latitude",        *)
(* "pvgis") is one token per word, and no such token holds a character     *)
(* that trimming, a regular expression or URL encoding looks at.  Join     *)
(* flattens a token sequence into one string, which is how cache keys are  *)
(* compared.                                                               *)
(***************************************************************************)
EXTENDS Integers, Sequences, FiniteSets, TLC

(***************************************************************************)
(* Bounds of the model.                                                    *)
(***************************************************************************)
MaxRequests == 2
MaxTicks == 2

(***************************************************************************)
(* Strings.                                                                *)
(***************************************************************************)
RECURSIVE Join(_)
Join(s) == IF s = <<>> THEN "" ELSE Head(s) \o Join(Tail(s))

Whitespace == {" "}
Digits == {"0", "1", "2", "3", "4", "5", "6", "7", "8", "9"}
Letters == {"a", "b", "c", "n", "u", "s", "A", "C", "N"}

\* String.prototype.trim
RECURSIVE TrimLeft(_)
TrimLeft(s) == IF s # <<>> /\ Head(s) \in Whitespace THEN TrimLeft(Tail(s)) ELSE s

RECURSIVE TrimRight(_)
TrimRight(s) ==
  IF s # <<>> /\ s[Len(s)] \in Whitespace THEN TrimRight(SubSeq(s, 1, Len(s) - 1)) ELSE s

Trim(s) == TrimRight(TrimLeft(s))

\* UTF-16 order of the characters a date string may hold, for the string comparison "<".
CharCode(c) ==
  CASE c = "-" -> 45
    [] c = "0" -> 48 [] c = "1" -> 49 [] c = "2" -> 50 [] c = "3" -> 51 [] c = "4" -> 52
    [] c = "5" -> 53 [] c = "6" -> 54 [] c = "7" -> 55 [] c = "8" -> 56 [] c = "9" -> 57
    [] OTHER -> 0

RECURSIVE StrLess(_, _)
StrLess(a, b) ==
  IF b = <<>> THEN FALSE
  ELSE IF a = <<>> THEN TRUE
  ELSE IF Head(a) = Head(b) THEN StrLess(Tail(a), Tail(b))
  ELSE CharCode(Head(a)) < CharCode(Head(b))

(***************************************************************************)
(* JSON values of a request body.  A number is sign, whole part and an     *)
(* optional half, which is enough to tell integers from non-integers and   *)
(* to leave every numeric range by the smallest step.                      *)
(***************************************************************************)
Absent == [t |-> "absent"]
JNum(neg, whole, half) == [t |-> "num", neg |-> neg, whole |-> whole, half |-> half]
JInt(i) == JNum(i < 0, IF i < 0 THEN -i ELSE i, FALSE)
JStr(s) == [t |-> "str", s |-> s]
JBool(b) == [t |-> "bool", b |-> b]

\* Twice the value of a number, as an integer.
Halves(n) == (IF n.neg THEN -1 ELSE 1) * (2 * n.whole + (IF n.half THEN 1 ELSE 0))

\* Number-to-string conversion of a template literal or String(x).
NumStr(n) ==
  (IF Halves(n) < 0 THEN "-" ELSE "") \o ToString(n.whole) \o (IF n.half THEN ".5" ELSE "")


(***************************************************************************)
(* Request bodies.  A body is a record of all the fields any caller sends; *)
(* a field the caller left out is Absent.  "email" is a field outside      *)
(* every schema.  InvalidJson is a body req.json() cannot parse.           *)
(***************************************************************************)
Fields ==
  {"source", "lat", "lon", "startYear", "endYear", "start", "end", "timeStep",
   "identifier", "integrated", "query", "limit", "countryCodes", "email"}

EmptyBody == [f \in Fields |-> Absent]
InvalidJson == [invalidJson |-> TRUE]

\* z.number().min(lo).max(hi)
IsNumberIn(v, lo, hi) == v.t = "num" /\ 2 * lo <= Halves(v) /\ Halves(v) <= 2 * hi

\* z.number().int().min(lo).max(hi)
IsIntIn(v, lo, hi) == IsNumberIn(v, lo, hi) /\ ~v.half

\* /^[a-z]{2}(,[a-z]{2})*$/i
RECURSIVE MatchesCountryCodes(_)
MatchesCountryCodes(s) ==
  /\ Len(s) >= 2
  /\ s[1] \in Letters
  /\ s[2] \in Letters
  /\ \/ Len(s) = 2
     \/ Len(s) >= 3 /\ s[3] = "," /\ MatchesCountryCodes(SubSeq(s, 4, Len(s)))

\* /^\d{4}-\d{2}-\d{2}$/
MatchesDate(s) ==
  /\ Len(s) = 10
  /\ \A i \in {1, 2, 3, 4, 6, 7, 9, 10} : s[i] \in Digits
  /\ s[5] = "-"
  /\ s[8] = "-"

TimeSteps == {<<"1min">>, <<"15min">>, <<"1h">>, <<"1d">>, <<"1M">>}
Identifiers == {<<"cams_radiation">>, <<"mcclear">>}

Invalid == [ok |-> FALSE, error |-> "ZodError"]
Valid(v) == [ok |-> TRUE, value |-> v]

\* lat: z.number().min(-180).max(180), lon: z.number().min(-180).max(180)
CoordsOkLatAsLon(b) == IsNumberIn(b.lat, -180, 180) /\ IsNumberIn(b.lon, -180, 180)

\* lat: z.number().min(-90).max(90), lon: z.number().min(-180).max(180)
CoordsOk(b) == IsNumberIn(b.lat, -90, 90) /\ IsNumberIn(b.lon, -180, 180)

\* query: z.string().min(2), the string not trimmed
GeocodeRequestSchemaNoTrim(b) ==
  IF /\ b.query.t = "str"
     /\ Len(b.query.s) >= 2
     /\ b.limit = Absent \/ IsIntIn(b.limit, 1, 10)
     /\ b.countryCodes = Absent
          \/ (b.countryCodes.t = "str" /\ MatchesCountryCodes(Trim(b.countryCodes.s)))
  THEN Valid([query |-> b.query.s,
              limit |-> b.limit,
              countryCodes |-> IF b.countryCodes = Absent THEN Absent
                               ELSE JStr(Trim(b.countryCodes.s))])
  ELSE Invalid

GeocodeRequestSchema(b) ==
  IF /\ b.query.t = "str"
     /\ Len(Trim(b.query.s)) >= 2
     /\ b.limit = Absent \/ IsIntIn(b.limit, 1, 10)
     /\ b.countryCodes = Absent
          \/ (b.countryCodes.t = "str" /\ MatchesCountryCodes(Trim(b.countryCodes.s)))
  THEN Valid([query |-> Trim(b.query.s),
              limit |-> b.limit,
              countryCodes |-> IF b.countryCodes = Absent THEN Absent
                               ELSE JStr(Trim(b.countryCodes.s))])
  ELSE Invalid

IrradianceTmyRequestSchema(b) ==
  IF CoordsOk(b) THEN Valid([lat |-> b.lat, lon |-> b.lon]) ELSE Invalid

PvgisSeriesRequestSchema(b) ==
  IF /\ b.source = JStr(<<"pvgis">>)
     /\ CoordsOk(b)
     /\ IsIntIn(b.startYear, 1990, 2100)
     /\ IsIntIn(b.endYear, 1990, 2100)
  THEN Valid([source |-> "pvgis", lat |-> b.lat, lon |-> b.lon,
              startYear |-> b.startYear, endYear |-> b.endYear])
  ELSE Invalid

CamsSeriesRequestSchema(b) ==
  IF /\ b.source = JStr(<<"cams">>)
     /\ CoordsOk(b)
     /\ b.start.t = "str" /\ MatchesDate(Trim(b.start.s))
     /\ b.end.t = "str" /\ MatchesDate(Trim(b.end.s))
     /\ b.timeStep = Absent \/ (b.timeStep.t = "str" /\ b.timeStep.s \in TimeSteps)
     /\ b.identifier = Absent \/ (b.identifier.t = "str" /\ b.identifier.s \in Identifiers)
     /\ b.integrated = Absent \/ b.integrated.t = "bool"
  THEN Valid([source |-> "cams", lat |-> b.lat, lon |-> b.lon,
              start |-> Trim(b.start.s), end |-> Trim(b.end.s),
              timeStep |-> b.timeStep, identifier |-> b.identifier,
              integrated |-> b.integrated])
  ELSE Invalid

\* z.discriminatedUnion("source", [PvgisSeriesRequestSchema, CamsSeriesRequestSchema])
IrradianceSeriesRequestSchema(b) ==
  IF b.source = JStr(<<"pvgis">>) THEN PvgisSeriesRequestSchema(b)
  ELSE IF b.source = JStr(<<"cams">>) THEN CamsSeriesRequestSchema(b)
  ELSE Invalid


(***************************************************************************)
(* The state of the server process, and of what runs beside it.             *)
(*   store     the cache's Map: the keys present and their entries         *)
(*   now       Date.now()                                                  *)
(*   env       process.env, fixed at process start                         *)
(*   handlers  the route handlers in flight, one per request slot          *)
(*   started   requests accepted so far                                    *)
(*   ticks     clock advances so far                                       *)
(*   page      the browser page: its React state and its requests in flight*)
(*   calc      one function applied on its own: its input and its output   *)
(***************************************************************************)
VARIABLES store, now, env, handlers, started, ticks, page, calc

vars == <<store, now, env, handlers, started, ticks, page, calc>>

Slots == {1, 2}

HourMs == 60 * 60 * 1000

\* The ttlMs each route passes to cacheSet.
GeocodeTtlMs == 24 * 60 * 60 * 1000
TmyTtlMs == 12 * 60 * 60 * 1000
SeriesTtlMs == 60 * 60 * 1000

(***************************************************************************)
(* The fingerprint cache.  cacheGet is a value and a new store; an absent  *)
(* value is Absent.                                                        *)
(***************************************************************************)
Has(st, key) == key \in DOMAIN st

Without(st, key) == [k \in DOMAIN st \ {key} |-> st[k]]

Put(st, key, entry) == [k \in DOMAIN st \cup {key} |-> IF k = key THEN entry ELSE st[k]]

\* Date.now(), in seconds, > entry.expiresAt
ExpiredInSeconds(entry, t) == t \div 1000 > entry.expiresAt

\* Date.now() > entry.expiresAt
Expired(entry, t) == t > entry.expiresAt

cacheGetValue(st, key, t) ==
  IF ~Has(st, key) THEN Absent
  ELSE IF Expired(st[key], t) THEN Absent
  ELSE st[key].value

cacheGetStore(st, key, t) ==
  IF Has(st, key) /\ Expired(st[key], t) THEN Without(st, key) ELSE st

\* store.set(key, { value, expiresAt: ttlMs })
cacheSetNoClock(st, key, value, ttlMs, t) == Put(st, key, [value |-> value, expiresAt |-> ttlMs])

\* if (!store.has(key)) store.set(key, { value, expiresAt: Date.now() + ttlMs })
cacheSetIfAbsent(st, key, value, ttlMs, t) ==
  IF Has(st, key) THEN st ELSE Put(st, key, [value |-> value, expiresAt |-> t + ttlMs])

\* store.set(key, { value, expiresAt: Date.now() + ttlMs })
cacheSet(st, key, value, ttlMs, t) == Put(st, key, [value |-> value, expiresAt |-> t + ttlMs])

(***************************************************************************)
(* The cache keys of the three routes.                                     *)
(***************************************************************************)
\* x ?? d
OrElse(x, d) == IF x = Absent THEN d ELSE x.s

GeocodeLimit(parsed) == IF parsed.limit = Absent THEN JInt(5) ELSE parsed.limit

GeocodeCacheKey(parsed) ==
  "geocode:nominatim:" \o Join(parsed.query) \o ":" \o NumStr(GeocodeLimit(parsed))
    \o ":" \o Join(OrElse(parsed.countryCodes, <<"all">>))

TmyCacheKey(parsed) == "pvgis:tmy:" \o NumStr(parsed.lat) \o "," \o NumStr(parsed.lon)

PvgisSeriesCacheKey(parsed) ==
  "pvgis:series:" \o NumStr(parsed.lat) \o "," \o NumStr(parsed.lon) \o ":"
    \o NumStr(parsed.startYear) \o "-" \o NumStr(parsed.endYear)

\* parsed.integrated ? "1" : "0"
IsTrue(x) == x # Absent /\ x.b

\* The key without the integrated flag.
CamsSeriesCacheKeyNoFlag(parsed) ==
  "cams:series:" \o NumStr(parsed.lat) \o "," \o NumStr(parsed.lon) \o ":"
    \o Join(parsed.start) \o ":" \o Join(parsed.end) \o ":"
    \o Join(OrElse(parsed.timeStep, <<"1h">>)) \o ":"
    \o Join(OrElse(parsed.identifier, <<"cams_radiation">>))

CamsSeriesCacheKey(parsed) ==
  "cams:series:" \o NumStr(parsed.lat) \o "," \o NumStr(parsed.lon) \o ":"
    \o Join(parsed.start) \o ":" \o Join(parsed.end) \o ":"
    \o Join(OrElse(parsed.timeStep, <<"1h">>)) \o ":"
    \o Join(OrElse(parsed.identifier, <<"cams_radiation">>)) \o ":"
    \o (IF IsTrue(parsed.integrated) THEN "1" ELSE "0")


(***************************************************************************)
(* The time codec.  An instant is a number of minutes since 1970-01-01     *)
(* 00:00 UTC; toISOString writes it out one to one.                        *)
(***************************************************************************)
Throw(msg) == [ok |-> FALSE, error |-> msg]
Return(v) == [ok |-> TRUE, value |-> v]

DigitVal(c) == CharCode(c) - 48

RECURSIVE NumberOfDigits(_)
NumberOfDigits(s) ==
  IF s = <<>> THEN 0 ELSE 10 * NumberOfDigits(SubSeq(s, 1, Len(s) - 1)) + DigitVal(s[Len(s)])

\* Days from 1970-01-01 to the civil date y-m-d (m in 1..12), proleptic Gregorian.
DaysFromCivil(y, m, d) ==
  LET yy == IF m <= 2 THEN y - 1 ELSE y
      era == yy \div 400
      yoe == yy - era * 400
      mp == IF m > 2 THEN m - 3 ELSE m + 9
      doy == (153 * mp + 2) \div 5 + d - 1
      doe == yoe * 365 + yoe \div 4 - yoe \div 100 + doy
  IN  era * 146097 + doe - 719468

\* Date.UTC(year, monthIndex, day, hours, minutes, 0), in minutes: out-of-range
\* fields carry over, and a year in 0..99 means 1900 + year.
DateUTC(year, monthIndex, day, hours, minutes) ==
  LET y0 == IF year >= 0 /\ year <= 99 THEN 1900 + year ELSE year
      y == y0 + monthIndex \div 12
      m == (monthIndex % 12) + 1
  IN  (DaysFromCivil(y, m, 1) + day - 1) * 1440 + hours * 60 + minutes

\* /^(\d{4})(\d{2})(\d{2}):(\d{2})(\d{2})$/
MatchesPvgisTime(s) ==
  /\ Len(s) = 13
  /\ \A i \in (1..8) \cup (10..13) : s[i] \in Digits
  /\ s[9] = ":"

parsePvgisTimeToIsoUtc(value) ==
  LET v == Trim(value)
  IN  IF ~MatchesPvgisTime(v) THEN Throw("Unsupported PVGIS time format")
      ELSE Return(DateUTC(NumberOfDigits(SubSeq(v, 1, 4)),
                          NumberOfDigits(SubSeq(v, 5, 6)) - 1,
                          NumberOfDigits(SubSeq(v, 7, 8)),
                          NumberOfDigits(SubSeq(v, 10, 11)),
                          NumberOfDigits(SubSeq(v, 12, 13))))

(***************************************************************************)
(* Values of a provider row: a number, a string or null; a column the row  *)
(* does not have reads as Absent (undefined).                              *)
(***************************************************************************)
Null == [t |-> "null"]

Get(r, k) == IF k \in DOMAIN r THEN r[k] ELSE Absent

\* numberOrNull of the PVGIS adapter: typeof value === "number" && Number.isFinite(value)
numberOrNull(value) == IF value.t = "num" THEN value ELSE Null

\* normalizeExtras of the PVGIS adapter: every column but the skipped ones, unchanged.
normalizeExtras(raw, skipKeys) == [k \in DOMAIN raw \ skipKeys |-> raw[k]]

\* A map that leaves out the rows its callback throws on.
RECURSIVE MapRowsSkipping(_)
MapRowsSkipping(results) ==
  IF results = <<>> THEN Return(<<>>)
  ELSE Return((IF Head(results).ok THEN <<Head(results).value>> ELSE <<>>)
                \o MapRowsSkipping(Tail(results)).value)

\* rows.map(callback), given what the callback does on each row in order: the
\* points, or the error of the first row it throws on.
RECURSIVE MapRows(_)
MapRows(results) ==
  IF results = <<>> THEN Return(<<>>)
  ELSE IF ~Head(results).ok THEN Head(results)
  ELSE LET rest == MapRows(Tail(results))
       IN  IF ~rest.ok THEN rest ELSE Return(<<Head(results).value>> \o rest.value)


(***************************************************************************)
(* URLs.  A URL is a token sequence: the base, then name=value pairs.      *)
(* UrlEncode is URLSearchParams' serialization of one name or value.       *)
(***************************************************************************)
EncodeToken(c) ==
  CASE c = " " -> "+"
    [] c = "%" -> "%25"
    [] c = "," -> "%2C"
    [] c = "/" -> "%2F"
    [] c = ":" -> "%3A"
    [] c = ";" -> "%3B"
    [] c = "=" -> "%3D"
    [] c = "@" -> "%40"
    [] OTHER -> c

UrlEncode(s) == [i \in 1..Len(s) |-> EncodeToken(s[i])]

\* url.searchParams.set(name, value) on a URL that does not have the name yet.
SetParam(url, name, value) ==
  url \o <<(IF \E i \in 1..Len(url) : url[i] = "?" THEN "&" ELSE "?"), name, "=">>
      \o UrlEncode(value)

\* The number of outbound attempts after the first that every adapter allows.
Retries == 1

(***************************************************************************)
(* The PVGIS adapter.  A reply of the provider is the parsed JSON body:    *)
(* [inputs, outputs], outputs a record that may hold the hourly rows.  A   *)
(* row maps column names to values.                                        *)
(***************************************************************************)
PVGIS_BASE_URL == "https://re.jrc.ec.europa.eu/api/v5_3"

PvgisTmyUrl(lat, lon) ==
  SetParam(SetParam(SetParam(<<PVGIS_BASE_URL, "/tmy">>,
    "lat", <<NumStr(lat)>>), "lon", <<NumStr(lon)>>), "outputformat", <<"json">>)

TmyPoint(r) ==
  LET rawTime == Get(r, "time(UTC)")
  IN  IF rawTime.t # "str" THEN Throw("PVGIS TMY missing time(UTC)")
      ELSE LET time == parsePvgisTimeToIsoUtc(rawTime.s)
           IN  IF ~time.ok THEN time
               ELSE Return([time |-> time.value,
                            ghi |-> numberOrNull(Get(r, "G(h)")),
                            dni |-> numberOrNull(Get(r, "Gb(n)")),
                            dhi |-> numberOrNull(Get(r, "Gd(h)")),
                            extras |-> normalizeExtras(r, {"time(UTC)", "G(h)", "Gb(n)", "Gd(h)"})])

\* fetchPvgisTmy from the reply on: json.outputs.tmy_hourly ?? [], the rows mapped,
\* the response packaged.
PvgisTmyResult(lat, lon, json) ==
  IF json.outputs = Absent THEN Throw("TypeError: Cannot read properties of undefined")
  ELSE LET rows == IF "tmy_hourly" \in DOMAIN json.outputs THEN json.outputs.tmy_hourly
                   ELSE <<>>
           data == MapRows([i \in 1..Len(rows) |-> TmyPoint(rows[i])])
       IN  IF ~data.ok THEN data
           ELSE Return([metadata |-> [source |-> "pvgis", queryType |-> "tmy",
                                      lat |-> lat, lon |-> lon, timeRef |-> "UTC",
                                      unit |-> [irradiance |-> "W/m2"],
                                      requestUrl |-> PvgisTmyUrl(lat, lon),
                                      rawInputs |-> json.inputs],
                        data |-> data.value])

PvgisSeriesUrl(lat, lon, startYear, endYear) ==
  SetParam(SetParam(SetParam(SetParam(SetParam(SetParam(SetParam(
    <<PVGIS_BASE_URL, "/seriescalc">>,
    "lat", <<NumStr(lat)>>), "lon", <<NumStr(lon)>>),
    "startyear", <<NumStr(startYear)>>), "endyear", <<NumStr(endYear)>>),
    "outputformat", <<"json">>), "browser", <<"0">>), "components", <<"1">>)

\* a ?? 0, for a number or null
OrZero(v) == IF v = Null THEN 0 ELSE Halves(v)

\* The number whose doubled value is h.
FromHalves(h) == JNum(h < 0, (IF h < 0 THEN -h ELSE h) \div 2, (IF h < 0 THEN -h ELSE h) % 2 = 1)

\* The sum only when all three components are numbers.
SeriesGhiAllPresent(gb, gd, gr) ==
  IF gb # Null /\ gd # Null /\ gr # Null
  THEN FromHalves(OrZero(gb) + OrZero(gd) + OrZero(gr))
  ELSE Null

\* gb !== null || gd !== null || gr !== null ? (gb ?? 0) + (gd ?? 0) + (gr ?? 0) : null
SeriesGhi(gb, gd, gr) ==
  IF gb # Null \/ gd # Null \/ gr # Null
  THEN FromHalves(OrZero(gb) + OrZero(gd) + OrZero(gr))
  ELSE Null

SeriesPoint(r) ==
  LET rawTime == Get(r, "time")
      gb == numberOrNull(Get(r, "Gb(i)"))
      gd == numberOrNull(Get(r, "Gd(i)"))
      gr == numberOrNull(Get(r, "Gr(i)"))
  IN  IF rawTime.t # "str" THEN Throw("PVGIS series missing time")
      ELSE LET time == parsePvgisTimeToIsoUtc(rawTime.s)
           IN  IF ~time.ok THEN time
               ELSE Return([time |-> time.value,
                            ghi |-> SeriesGhi(gb, gd, gr),
                            dni |-> Null,
                            dhi |-> Null,
                            extras |-> normalizeExtras(r, {"time"})])

PvgisSeriesResult(lat, lon, startYear, endYear, json) ==
  IF json.outputs = Absent THEN Throw("TypeError: Cannot read properties of undefined")
  ELSE LET rows == IF "hourly" \in DOMAIN json.outputs THEN json.outputs.hourly ELSE <<>>
           data == MapRows([i \in 1..Len(rows) |-> SeriesPoint(rows[i])])
       IN  IF ~data.ok THEN data
           ELSE Return([metadata |-> [source |-> "pvgis", queryType |-> "series",
                                      lat |-> lat, lon |-> lon, timeRef |-> "UTC",
                                      unit |-> [irradiance |-> "W/m2"],
                                      requestUrl |-> PvgisSeriesUrl(lat, lon, startYear, endYear),
                                      rawInputs |-> json.inputs],
                        data |-> data.value])

(***************************************************************************)
(* The geocoder adapter.  A reply is [items |-> the provider's list], or   *)
(* Null for a JSON null body.                                              *)
(***************************************************************************)
NOMINATIM_BASE_URL == "https://nominatim.openstreetmap.org/search"
GEOCODE_LANGUAGE == "zh-CN"

\* Number(s) of a provider string, kept as the string it is the number of.
NumberOf(s) == [t |-> "Number", of |-> s]

GeocodeUrl(query, limit, countryCodes) ==
  LET u == SetParam(SetParam(SetParam(SetParam(SetParam(<<NOMINATIM_BASE_URL>>,
             "q", query), "format", <<"jsonv2">>), "limit", <<NumStr(limit)>>),
             "addressdetails", <<"1">>), "accept-language", <<GEOCODE_LANGUAGE>>)
  IN  IF countryCodes # Absent /\ countryCodes.s # <<>>
      THEN SetParam(u, "countrycodes", countryCodes.s)
      ELSE u

GeocodeCandidate(it) ==
  [lat |-> NumberOf(it.lat), lon |-> NumberOf(it.lon), displayName |-> it.display_name,
   provider |-> "nominatim",
   confidence |-> IF Get(it, "importance").t = "num" THEN it.importance ELSE Null]

geocodeAddressWithCountryCodes(query, limit, countryCodes, items) ==
  [requestUrl |-> GeocodeUrl(query, limit, countryCodes),
   candidates |-> IF items = Null THEN <<>>
                  ELSE [i \in 1..Len(items.items) |-> GeocodeCandidate(items.items[i])]]


(***************************************************************************)
(* The CAMS adapter.  A reply of the provider is [text |-> the CSV as its   *)
(* sequence of lines (csv.split(/\r?\n/))], each line one character per    *)
(* token except the column title "Observation period", which is one token. *)
(***************************************************************************)
SODA_WPS_BASE_URL == "https://api.soda-solardata.com/service/wps"

\* The index of the first c in s, or 0.
IndexOf(s, c) ==
  IF \E i \in 1..Len(s) : s[i] = c
  THEN CHOOSE i \in 1..Len(s) : s[i] = c /\ \A j \in 1..(i - 1) : s[j] # c
  ELSE 0

\* s.split(c)
RECURSIVE Split(_, _)
Split(s, c) ==
  LET i == IndexOf(s, c)
  IN  IF i = 0 THEN <<s>>
      ELSE <<SubSeq(s, 1, i - 1)>> \o Split(SubSeq(s, i + 1, Len(s)), c)

\* s.replaceAll(c, by), by a token sequence
RECURSIVE ReplaceAll(_, _, _)
ReplaceAll(s, c, by) ==
  IF s = <<>> THEN <<>>
  ELSE (IF Head(s) = c THEN by ELSE <<Head(s)>>) \o ReplaceAll(Tail(s), c, by)

\* A finite number, or not: the result of Number(string).
NaN == [t |-> "NaN"]

IsDigits(s) == \A i \in 1..Len(s) : s[i] \in Digits

\* Number(s) for the strings of the model's payloads: surrounding white space is
\* dropped, the empty string is 0, a decimal literal (fraction none, 0 or 5) is its
\* value, and anything else is NaN.
StrToNumber(s) ==
  LET t == Trim(s)
      neg == t # <<>> /\ Head(t) = "-"
      u == IF t # <<>> /\ Head(t) \in {"-", "+"} THEN Tail(t) ELSE t
      dot == IndexOf(u, ".")
      whole == IF dot = 0 THEN u ELSE SubSeq(u, 1, dot - 1)
      frac == IF dot = 0 THEN <<>> ELSE SubSeq(u, dot + 1, Len(u))
  IN  IF t = <<>> THEN JInt(0)
      ELSE IF whole # <<>> /\ IsDigits(whole) /\ frac \in {<<>>, <<"0">>, <<"5">>}
      THEN JNum(neg, NumberOfDigits(whole), frac = <<"5">>)
      ELSE NaN

\* numberOrNull of the CAMS adapter, on a cell or undefined.
camsNumberOrNull(value) ==
  IF value = Absent \/ value.s = <<>> THEN Null
  ELSE IF StrToNumber(value.s) = NaN THEN Null ELSE StrToNumber(value.s)

\* normalizeExtras of the CAMS adapter: numeric-looking cells become numbers.
camsNormalizeExtras(raw, skipKeys) ==
  [k \in DOMAIN raw \ skipKeys |->
     IF StrToNumber(raw[k].s) = NaN THEN raw[k] ELSE StrToNumber(raw[k].s)]

\* /^\d{4}-\d{2}-\d{2}T\d{2}:\d{2}:\d{2}$/
MatchesDateTime(s) ==
  /\ Len(s) = 19
  /\ \A i \in {1, 2, 3, 4, 6, 7, 9, 10, 12, 13, 15, 16, 18, 19} : s[i] \in Digits
  /\ s[5] = "-" /\ s[8] = "-" /\ s[11] = "T" /\ s[14] = ":" /\ s[17] = ":"

\* /[+-]\d{2}:?\d{2}$/
EndsWithOffset(s) ==
  \/ /\ Len(s) >= 6
     /\ s[Len(s) - 5] \in {"+", "-"}
     /\ IsDigits(SubSeq(s, Len(s) - 4, Len(s) - 3))
     /\ s[Len(s) - 2] = ":"
     /\ IsDigits(SubSeq(s, Len(s) - 1, Len(s)))
  \/ /\ Len(s) >= 5
     /\ s[Len(s) - 4] \in {"+", "-"}
     /\ IsDigits(SubSeq(s, Len(s) - 3, Len(s)))

\* new Date(s) for the date-time strings of the model's payloads, as V8 reads them:
\* YYYY-MM-DDTHH:mm:ss followed by Z or by an offset +HH:mm / -HH:mm, a day up to 31
\* carrying into the next month; anything else is an invalid date.
DateParse(s) ==
  LET body == SubSeq(s, 1, 19)
      tz == SubSeq(s, 20, Len(s))
      f(i, j) == NumberOfDigits(SubSeq(s, i, j))
      fieldsOk == /\ f(6, 7) \in 1..12 /\ f(9, 10) \in 1..31
                  /\ f(12, 13) \in 0..23 /\ f(15, 16) \in 0..59 /\ f(18, 19) \in 0..59
      utc == DateUTC(f(1, 4), f(6, 7) - 1, f(9, 10), f(12, 13), f(15, 16))
      offOk == /\ Len(tz) = 6 /\ tz[1] \in {"+", "-"} /\ tz[4] = ":"
               /\ IsDigits(SubSeq(tz, 2, 3)) /\ IsDigits(SubSeq(tz, 5, 6))
      off == (IF tz[1] = "-" THEN -1 ELSE 1)
               * (60 * NumberOfDigits(SubSeq(tz, 2, 3)) + NumberOfDigits(SubSeq(tz, 5, 6)))
  IN  IF Len(s) < 20 \/ ~MatchesDateTime(body) THEN Throw("Invalid Date")
      ELSE IF ~fieldsOk THEN Throw("Invalid Date")
      ELSE IF tz = <<"Z">> THEN Return(utc)
      ELSE IF offOk THEN Return(utc - off)
      ELSE Throw("Invalid Date")

toIsoUtcFromObservationPeriod(value) ==
  LET start == Trim(Split(value, "/")[1])
      hasTz == (start[Len(start)] \in {"z", "Z"}) \/ EndsWithOffset(start)
      normalized == IF hasTz THEN start ELSE start \o <<"Z">>
  IN  IF start = <<>> THEN Throw("CAMS CSV missing observation period start")
      ELSE IF ~DateParse(normalized).ok THEN Throw("Unsupported CAMS time format")
      ELSE DateParse(normalized)

\* line.replace(/^#\s*/, "")
DropHash(line) == IF line # <<>> /\ Head(line) = "#" THEN TrimLeft(Tail(line)) ELSE line

StartsWithHash(line) == line # <<>> /\ Head(line) = "#"

\* /^Observation period\s*;/
IsHeaderMarker(trimmed) ==
  /\ trimmed # <<>>
  /\ Head(trimmed) = "Observation period"
  /\ TrimLeft(Tail(trimmed)) # <<>>
  /\ Head(TrimLeft(Tail(trimmed))) = ";"

\* /^([^:]+):\s*(.*)$/
IsMetaLine(trimmed) == IndexOf(trimmed, ":") > 1

\* The key: value pairs of the comment lines, a later line overriding an earlier one.
RECURSIVE CsvMeta(_)
CsvMeta(lines) ==
  IF lines = <<>> THEN <<>>
  ELSE LET line == lines[Len(lines)]
           trimmed == DropHash(line)
           i == IndexOf(trimmed, ":")
           front == CsvMeta(SubSeq(lines, 1, Len(lines) - 1))
       IN  IF StartsWithHash(line) /\ IsMetaLine(trimmed)
           THEN (Join(Trim(SubSeq(trimmed, 1, i - 1)))
                   :> JStr(Trim(SubSeq(trimmed, i + 1, Len(trimmed))))) @@ front
           ELSE front

\* The index of the last comment line that is a header marker, or 0 (the code's -1).
HeaderLineIdx(lines) ==
  LET S == {i \in 1..Len(lines) : StartsWithHash(lines[i]) /\ IsHeaderMarker(DropHash(lines[i]))}
  IN  IF S = {} THEN 0 ELSE CHOOSE i \in S : \A j \in S : j <= i

TrimAll(parts) == [j \in 1..Len(parts) |-> Trim(parts[j])]

\* obj[headers[j]] = parts[j] for j in order: a repeated title keeps its last cell.
CsvRecord(headers, parts) ==
  [k \in {Join(headers[j]) : j \in 1..Len(headers)} |->
     JStr(parts[CHOOSE j \in 1..Len(headers) :
            Join(headers[j]) = k /\ \A i \in (j + 1)..Len(headers) : Join(headers[i]) # k])]

\* A line with at least as many fields as the header is a record.
IsRecordAtLeast(headers, line, parts) == ~StartsWithHash(line) /\ Len(parts) >= Len(headers)

\* The two continue tests of the record loop: a comment line, a line whose field
\* count is not the header's.
IsRecord(headers, line, parts) == ~StartsWithHash(line) /\ Len(parts) = Len(headers)

RECURSIVE CsvRows(_, _)
CsvRows(headers, lines) ==
  IF lines = <<>> THEN <<>>
  ELSE LET line == Head(lines)
           parts == TrimAll(Split(line, ";"))
       IN  (IF IsRecord(headers, line, parts) THEN <<CsvRecord(headers, parts)>> ELSE <<>>)
             \o CsvRows(headers, Tail(lines))

parseCamsCsv(csv) ==
  LET lines == SelectSeq(csv.text, LAMBDA l : Trim(l) # <<>>)
      idx == HeaderLineIdx(lines)
      headers == TrimAll(Split(DropHash(lines[idx]), ";"))
  IN  IF idx = 0 THEN Throw("CAMS CSV missing header line")
      ELSE Return([rows |-> CsvRows(headers, SubSeq(lines, idx + 1, Len(lines))),
                   meta |-> CsvMeta(lines)])

\* params.email.trim().replaceAll("@", "%2540")
EmailEscaped(email) == ReplaceAll(Trim(email), "@", <<"%", "2540">>)

\* params.identifier ?? "cams_radiation", params.timeStep ?? "1h", params.integrated ?? false
CamsIdentifier(params) == OrElse(params.identifier, <<"cams_radiation">>)
CamsTimeStep(params) == OrElse(params.timeStep, <<"1h">>)
\* params.integrated !== undefined
CamsIntegratedGiven(params) == params.integrated # Absent

CamsIntegrated(params) == IsTrue(params.integrated)

\* parts.join(";")
RECURSIVE JoinWith(_, _)
JoinWith(parts, sep) ==
  IF parts = <<>> THEN <<>>
  ELSE IF Len(parts) = 1 THEN parts[1]
  ELSE parts[1] \o <<sep>> \o JoinWith(Tail(parts), sep)

CamsUrl(lat, lon, params) ==
  LET dataInputs ==
        JoinWith(<< <<"latitude", "=", NumStr(lat)>>,
                    <<"longitude", "=", NumStr(lon)>>,
                    <<"altitude", "=", "-999">>,
                    <<"date_begin", "=">> \o params.start,
                    <<"date_end", "=">> \o params.end,
                    <<"time_ref", "=", "UT">>,
                    <<"time_step", "=">> \o CamsTimeStep(params),
                    <<"email", "=">> \o EmailEscaped(params.email),
                    <<"verbose", "=", "false">>,
                    <<"outputformat", "=", "csv">>,
                    <<"integrated", "=", IF CamsIntegrated(params) THEN "true" ELSE "false">> >>,
                 ";")
  IN  SetParam(SetParam(SetParam(SetParam(SetParam(SetParam(<<SODA_WPS_BASE_URL>>,
        "DataInputs", dataInputs), "Service", <<"WPS">>), "Request", <<"Execute">>),
        "Identifier", <<"get_">> \o CamsIdentifier(params)), "version", <<"1.0.0">>),
        "RawDataOutput", <<"irradiation">>)

CamsPoint(r) ==
  LET rawTime == Get(r, "Observation period")
  IN  IF rawTime = Absent \/ rawTime.s = <<>>
      THEN Throw("CAMS CSV missing Observation period column")
      ELSE LET time == toIsoUtcFromObservationPeriod(rawTime.s)
           IN  IF ~time.ok THEN time
               ELSE Return([time |-> time.value,
                            ghi |-> camsNumberOrNull(Get(r, "GHI")),
                            dni |-> camsNumberOrNull(Get(r, "BNI")),
                            dhi |-> camsNumberOrNull(Get(r, "DHI")),
                            extras |-> camsNormalizeExtras(r,
                                         {"Observation period", "GHI", "BNI", "DHI"})])

\* rawInputs.params: { ...params, email: undefined }
CamsRawParams(params) == [params EXCEPT !.email = Absent]

\* fetchCamsSeries from the reply on: the CSV parsed, the rows mapped, the response
\* packaged.
CamsSeriesResult(lat, lon, params, csv) ==
  LET parsed == parseCamsCsv(csv)
  IN  IF ~parsed.ok THEN parsed
      ELSE LET rows == parsed.value.rows
               data == MapRows([i \in 1..Len(rows) |-> CamsPoint(rows[i])])
           IN  IF ~data.ok THEN data
               ELSE Return([metadata |-> [source |-> "cams", queryType |-> "series",
                                          lat |-> lat, lon |-> lon, timeRef |-> "UTC",
                                          unit |-> IF CamsIntegrated(params)
                                                   THEN [irradiation |-> "Wh/m2"]
                                                   ELSE [irradiance |-> "W/m2"],
                                          provider |-> "soda",
                                          requestUrl |-> CamsUrl(lat, lon, params),
                                          rawInputs |-> [params |-> CamsRawParams(params),
                                                         soda |-> parsed.value.meta]],
                            data |-> data.value])


(***************************************************************************)
(* The transport client.  The provider's answer to one attempt is          *)
(*   [kind |-> "ok", body |-> b]                a 2xx reply with body b,   *)
(*   [kind |-> "http", status, statusText, text] a reply that is not 2xx,  *)
(*   [kind |-> "network"]                       no reply: the fetch        *)
(*                                              rejects or is aborted by   *)
(*                                              the timeout.               *)
(* A body of InvalidJson is text that res.json() cannot parse.             *)
(***************************************************************************)
Take(s, n) == SubSeq(s, 1, IF Len(s) < n THEN Len(s) ELSE n)

\* The same message with the whole body.
HttpErrorMessageWhole(status, statusText, text) ==
  <<"HTTP", " ", ToString(status), " ", statusText>>
    \o (IF text # <<>> THEN <<":", " ">> \o text ELSE <<>>)

\* `HTTP ${res.status} ${res.statusText}${text ? `: ${text.slice(0, 400)}` : ""}`
HttpErrorMessage(status, statusText, text) ==
  <<"HTTP", " ", ToString(status), " ", statusText>>
    \o (IF text # <<>> THEN <<":", " ">> \o Take(text, 400) ELSE <<>>)

\* One pass of the body of the retry loop of fetchJson (asJson) or fetchText: the
\* value returned, or the error caught.
Attempt(outcome, asJson) ==
  IF outcome.kind = "http"
  THEN Throw(HttpErrorMessage(outcome.status, outcome.statusText, outcome.text))
  ELSE IF outcome.kind = "network" THEN Throw(<<"fetch failed">>)
  ELSE IF asJson /\ outcome.body = InvalidJson
  THEN Throw(<<"Unexpected token < in JSON at position 0">>)
  ELSE Return(outcome.body)

\* if (attempt > retries) break
LastAttemptOffByOne(attempt) == attempt > Retries

\* if (attempt >= retries) break
LastAttempt(attempt) == attempt >= Retries

(***************************************************************************)
(* Route handlers.  A handler is idle, awaiting the reply to an attempt    *)
(* ("fetching"), sleeping before the next attempt ("backoff") or done,     *)
(* with the response it returned.  log lists what it has called so far:    *)
(* "cacheGet", "store.delete" (the eviction inside cacheGet), the adapter  *)
(* by name, the transport call ("fetchJson" or "fetchText"), "fetch" once  *)
(* per outbound attempt, "cacheSet".  reply is the body the transport      *)
(* client returned to the adapter (its json or csv); caught lists the      *)
(* provider's answers to the attempts that ended in the catch block.       *)
(***************************************************************************)
Idle ==
  [pc |-> "idle", ep |-> "", body |-> EmptyBody, parsed |-> Absent, adapter |-> "",
   cacheKey |-> "", url |-> <<>>, attempt |-> 0, lastErr |-> Absent, log |-> <<>>,
   caught |-> <<>>, reply |-> Absent, resp |-> Absent]

\* NextResponse.json(body) and NextResponse.json(body, { status })
Json(body) == [status |-> 200, body |-> body]
JsonStatus(body, status) == [status |-> status, body |-> body]

Done(h, resp) == [h EXCEPT !.pc = "done", !.resp = resp]

\* The cached value returned as it is stored.
Unmarked(cached) == cached

\* { ...cached, metadata: { ...cached.metadata, cached: true } }
MarkCached(cached) ==
  [cached EXCEPT !.metadata = [k \in DOMAIN cached.metadata \cup {"cached"} |->
                                 IF k = "cached" THEN TRUE ELSE cached.metadata[k]]]

\* /between\s+(\d{4})\s+and\s+(\d{4})/i, matched at token i of the message: the
\* two years, or Absent.
SpacesFrom(s, i) ==
  LET n == CHOOSE k \in 0..Len(s) :
             /\ \A j \in i..(i + k - 1) : j <= Len(s) /\ s[j] \in Whitespace
             /\ ~(i + k <= Len(s) /\ s[i + k] \in Whitespace)
  IN  n

YearAt(s, i) == IF i + 3 <= Len(s) /\ IsDigits(SubSeq(s, i, i + 3)) THEN i + 4 ELSE 0

BetweenAt(s, i) ==
  LET a == i + 1 + SpacesFrom(s, i + 1)
      b == YearAt(s, a)
      c == b + SpacesFrom(s, b)
      d == c + 1 + SpacesFrom(s, c + 1)
      e == YearAt(s, d)
  IN  IF /\ s[i] \in {"between", "Between", "BETWEEN"}
         /\ SpacesFrom(s, i + 1) >= 1
         /\ b # 0
         /\ SpacesFrom(s, b) >= 1
         /\ c <= Len(s) /\ s[c] \in {"and", "And", "AND"}
         /\ SpacesFrom(s, c + 1) >= 1
         /\ e # 0
      THEN [yearMin |-> NumberOfDigits(SubSeq(s, a, a + 3)),
            yearMax |-> NumberOfDigits(SubSeq(s, d, d + 3))]
      ELSE Absent

YearRange(message) ==
  LET S == {i \in 1..Len(message) : BetweenAt(message, i) # Absent}
  IN  IF S = {} THEN Absent ELSE BetweenAt(message, CHOOSE i \in S : \A j \in S : i <= j)

\* The catch blocks: the geocode and tmy routes answer { error }, the series route
\* adds the year window when the message states one.
ErrorBody(route, message) ==
  IF route = "series" /\ YearRange(message) # Absent
  THEN [error |-> message, yearMin |-> YearRange(message).yearMin,
        yearMax |-> YearRange(message).yearMax]
  ELSE [error |-> message]

Catch(h, message) == Done(h, JsonStatus(ErrorBody(h.ep, message), 400))


\* fetchJson for the JSON providers, fetchText for CAMS.
TransportOf(adapter) == IF adapter = "fetchCamsSeries" THEN "fetchText" ELSE "fetchJson"

\* The handler calls an adapter, which builds its URL and calls the transport client,
\* which issues the first attempt.
CallAdapter(h, adapter, url) ==
  [h EXCEPT !.pc = "fetching", !.adapter = adapter, !.url = url, !.attempt = 0,
            !.log = @ \o <<adapter, TransportOf(adapter), "fetch">>]

\* cacheGet(cacheKey): the value found or Absent, the store and the handler after it.
Lookup(h, st, t, cacheKey) ==
  [cached |-> cacheGetValue(st, cacheKey, t),
   store |-> cacheGetStore(st, cacheKey, t),
   h |-> [h EXCEPT !.cacheKey = cacheKey,
                   !.log = @ \o <<"cacheGet">>
                             \o (IF cacheGetStore(st, cacheKey, t) # st THEN <<"store.delete">>
                                 ELSE <<>>)]]

\* A response that ends the handler with the store as it is.
Respond(h, st, resp) == [store |-> st, h |-> Done(h, resp)]

Rejected(h, st, message) == [store |-> st, h |-> Catch(h, message)]

\* POST /api/geocode up to its first await of the network.
GeocodeRoute(h, st, t) ==
  LET p == GeocodeRequestSchema(h.body)
      parsed == p.value
      c == Lookup([h EXCEPT !.parsed = parsed], st, t, GeocodeCacheKey(parsed))
  IN  IF h.body = InvalidJson THEN Rejected(h, st, <<"SyntaxError">>)
      ELSE IF ~p.ok THEN Rejected(h, st, <<p.error>>)
      ELSE IF c.cached # Absent THEN Respond(c.h, c.store, Json(c.cached))
      ELSE [store |-> c.store,
            h |-> CallAdapter(c.h, "geocodeAddressWithCountryCodes",
                    GeocodeUrl(parsed.query, GeocodeLimit(parsed), parsed.countryCodes))]

\* POST /api/irradiance/tmy up to its first await of the network.
TmyRoute(h, st, t) ==
  LET p == IrradianceTmyRequestSchema(h.body)
      parsed == p.value
      c == Lookup([h EXCEPT !.parsed = parsed], st, t, TmyCacheKey(parsed))
  IN  IF h.body = InvalidJson THEN Rejected(h, st, <<"SyntaxError">>)
      ELSE IF ~p.ok THEN Rejected(h, st, <<p.error>>)
      ELSE IF c.cached # Absent THEN Respond(c.h, c.store, Json(MarkCached(c.cached)))
      ELSE [store |-> c.store,
            h |-> CallAdapter(c.h, "fetchPvgisTmy", PvgisTmyUrl(parsed.lat, parsed.lon))]

\* body.email ?? process.env.CAMS_SODA_EMAIL
CamsEmailFromCaller(body, e) == IF body.email # Absent THEN body.email ELSE e.CAMS_SODA_EMAIL

\* The email the series route hands to the CAMS adapter: process.env.CAMS_SODA_EMAIL.
CamsEmail(body, e) == e.CAMS_SODA_EMAIL

\* The params object the series route passes to fetchCamsSeries.
CamsParams(body, parsed, e) ==
  [start |-> parsed.start, end |-> parsed.end, timeStep |-> parsed.timeStep,
   identifier |-> parsed.identifier, integrated |-> parsed.integrated,
   email |-> CamsEmail(body, e).s]

\* email === undefined
FalsyUnsetOnly(email) == email = Absent

\* !email
Falsy(email) == email = Absent \/ email.s = <<>>

\* fetchCamsSeries up to its first await of the network: the email guard, the URL,
\* the first attempt.
CallCams(g, lat, lon, params) ==
  IF Trim(params.email) = <<>>
  THEN Catch([g EXCEPT !.adapter = "fetchCamsSeries", !.log = @ \o <<"fetchCamsSeries">>],
             <<"CAMS requires SoDa email (set CAMS_SODA_EMAIL or pass email)">>)
  ELSE CallAdapter(g, "fetchCamsSeries", CamsUrl(lat, lon, params))

\* The series route for source pvgis, after validation.
PvgisSeries(g, st, t, parsed) ==
  LET c == Lookup(g, st, t, PvgisSeriesCacheKey(parsed))
  IN  IF Halves(parsed.endYear) < Halves(parsed.startYear)
      THEN Respond(g, st, JsonStatus([error |-> <<"endYear must be >= startYear">>], 400))
      ELSE IF c.cached # Absent THEN Respond(c.h, c.store, Json(MarkCached(c.cached)))
      ELSE [store |-> c.store,
            h |-> CallAdapter(c.h, "fetchPvgisSeries",
                    PvgisSeriesUrl(parsed.lat, parsed.lon, parsed.startYear, parsed.endYear))]

\* The series route for source cams, after validation.
CamsSeries(g, st, t, e, parsed) ==
  LET c == Lookup(g, st, t, CamsSeriesCacheKey(parsed))
  IN  IF Falsy(CamsEmail(g.body, e))
      THEN Respond(g, st, JsonStatus([error |-> <<"Missing CAMS_SODA_EMAIL in server env">>], 400))
      ELSE IF StrLess(parsed.end, parsed.start)
      THEN Respond(g, st, JsonStatus([error |-> <<"end must be >= start">>], 400))
      ELSE IF c.cached # Absent THEN Respond(c.h, c.store, Json(MarkCached(c.cached)))
      ELSE [store |-> c.store,
            h |-> CallCams(c.h, parsed.lat, parsed.lon, CamsParams(g.body, parsed, e))]

\* POST /api/irradiance/series up to its first await of the network.
SeriesRoute(h, st, t, e) ==
  LET p == IrradianceSeriesRequestSchema(h.body)
      parsed == p.value
      g == [h EXCEPT !.parsed = parsed]
  IN  IF h.body = InvalidJson THEN Rejected(h, st, <<"SyntaxError">>)
      ELSE IF ~p.ok THEN Rejected(h, st, <<p.error>>)
      ELSE IF parsed.source = "pvgis" THEN PvgisSeries(g, st, t, parsed)
      ELSE CamsSeries(g, st, t, e, parsed)

Route(h, st, t, e) ==
  CASE h.ep = "geocode" -> GeocodeRoute(h, st, t)
    [] h.ep = "tmy" -> TmyRoute(h, st, t)
    [] h.ep = "series" -> SeriesRoute(h, st, t, e)

\* The adapter from the reply on: the value the route caches and returns, or the
\* error thrown.
AdapterResult(h, e, reply) ==
  CASE h.adapter = "geocodeAddressWithCountryCodes" ->
         LET g == geocodeAddressWithCountryCodes(h.parsed.query, GeocodeLimit(h.parsed),
                                                 h.parsed.countryCodes, reply)
         IN  Return([requestUrl |-> g.requestUrl, candidates |-> g.candidates,
                     countryCodes |-> IF h.parsed.countryCodes = Absent THEN Null
                                      ELSE h.parsed.countryCodes])
    [] h.adapter = "fetchPvgisTmy" -> PvgisTmyResult(h.parsed.lat, h.parsed.lon, reply)
    [] h.adapter = "fetchPvgisSeries" ->
         PvgisSeriesResult(h.parsed.lat, h.parsed.lon, h.parsed.startYear, h.parsed.endYear, reply)
    [] h.adapter = "fetchCamsSeries" ->
         CamsSeriesResult(h.parsed.lat, h.parsed.lon, CamsParams(h.body, h.parsed, e), reply)

\* The ttlMs of the route's cacheSet.
TtlMs(h) ==
  CASE h.ep = "geocode" -> GeocodeTtlMs
    [] h.ep = "tmy" -> TmyTtlMs
    [] h.ep = "series" -> SeriesTtlMs

AsJson(h) == TransportOf(h.adapter) = "fetchJson"

\* cacheSet in a finally block: what the adapter left is cached either way.
SettleInFinally(h, st, t, result) ==
  IF result.ok
  THEN [store |-> cacheSet(st, h.cacheKey, result.value, TtlMs(h), t),
        h |-> Done([h EXCEPT !.log = @ \o <<"cacheSet">>], Json(result.value))]
  ELSE [store |-> cacheSet(st, h.cacheKey, [error |-> result.error], TtlMs(h), t),
        h |-> Catch([h EXCEPT !.log = @ \o <<"cacheSet">>], <<result.error>>)]

\* The route from the adapter's return on: cacheSet(cacheKey, result, ttl) and the
\* response, or the catch block if the adapter threw.
Settle(h, st, t, result) ==
  IF result.ok
  THEN [store |-> cacheSet(st, h.cacheKey, result.value, TtlMs(h), t),
        h |-> Done([h EXCEPT !.log = @ \o <<"cacheSet">>], Json(result.value))]
  ELSE [store |-> st, h |-> Catch(h, <<result.error>>)]




(***************************************************************************)
(* The inputs of the model: request bodies, the provider's replies, the    *)
(* configured account email.                                               *)
(***************************************************************************)
With(b, f, v) == [b EXCEPT ![f] = v]

\* i + 0.5 for i >= 0, i - 0.5 for i < 0
Half(i) == JNum(i < 0, IF i < 0 THEN -i ELSE i, TRUE)

Date(d) == JStr(<<"2", "0", "2", "5", "-", "0", "1", "-", "0", d>>)

TmyBody(lat, lon) == With(With(EmptyBody, "lat", lat), "lon", lon)

PvgisBody(lat, lon, startYear, endYear) ==
  With(With(With(TmyBody(lat, lon), "source", JStr(<<"pvgis">>)),
            "startYear", startYear), "endYear", endYear)

CamsBody(lat, lon, start, end) ==
  With(With(With(TmyBody(lat, lon), "source", JStr(<<"cams">>)), "start", start), "end", end)

GeocodeBody(query) == With(EmptyBody, "query", JStr(query))

Request(ep, body) == [ep |-> ep, body |-> body]

\* The requests of the specification Spec: two tmy requests on different keys, a
\* series request and a request that fails validation.
CoreRequests ==
  {Request("tmy", TmyBody(JInt(30), JInt(120))),
   Request("tmy", TmyBody(JInt(31), JInt(120))),
   Request("tmy", TmyBody(Half(90), JInt(120))),
   Request("series", PvgisBody(JInt(30), JInt(120), JInt(2020), JInt(2020)))}

\* The requests of the specification SpecInputs: every route with values at, next
\* to and beyond each limit of its schema, with and without the optional fields.
Lats ==
  {JInt(30), JInt(31), JInt(-90), JInt(90), Half(90), Half(-90), JInt(91),
   JStr(<<"3", "0">>), Absent}

Lons == {JInt(120), JInt(-180), JInt(180), Half(180), Half(-180), JInt(181)}

Coords == {<<lat, JInt(120)>> : lat \in Lats} \cup {<<JInt(30), lon>> : lon \in Lons}

YearPairs ==
  {<<JInt(2020), JInt(2020)>>, <<JInt(2020), JInt(2021)>>, <<JInt(2021), JInt(2020)>>,
   <<JInt(1990), JInt(2100)>>, <<JInt(2100), JInt(1990)>>, <<JInt(1989), JInt(2020)>>,
   <<JInt(2020), JInt(2101)>>, <<Half(2020), JInt(2021)>>, <<JInt(2020), Half(2020)>>,
   <<JInt(2020), Absent>>}

TmyRequests == {Request("tmy", TmyBody(c[1], c[2])) : c \in Coords} \cup {Request("tmy", InvalidJson)}

PvgisRequests ==
  {Request("series", PvgisBody(JInt(30), JInt(120), y[1], y[2])) : y \in YearPairs}
    \cup {Request("series", PvgisBody(c[1], c[2], JInt(2020), JInt(2021))) :
            c \in {<<JInt(91), JInt(120)>>, <<JInt(30), JInt(181)>>, <<Half(-90), JInt(120)>>}}
    \cup {Request("series", PvgisBody(JInt(30), JInt(120), JInt(2021), JInt(2020)))}

CamsBase == CamsBody(JInt(30), JInt(120), Date("1"), Date("2"))

\* An email a caller puts in a request body.
CallerEmail == <<"mallory", "@", "evil.example">>

CamsBodies ==
  {CamsBase,
   CamsBody(JInt(30), JInt(120), Date("2"), Date("1")),
   CamsBody(JInt(30), JInt(120), Date("2"), Date("2")),
   CamsBody(JInt(30), JInt(120), JStr(<<" ">> \o Date("1").s), JStr(Date("2").s \o <<" ">>)),
   CamsBody(JInt(30), JInt(120), JStr(<<"2", "0", "2", "5", "-", "1", "-", "1">>), Date("2")),
   CamsBody(JInt(30), JInt(120), Date("1"), JInt(2025)),
   CamsBody(JInt(91), JInt(120), Date("2"), Date("1")),
   CamsBody(JInt(30), Half(180), Date("2"), Date("1")),
   CamsBody(JInt(31), JInt(120), Date("1"), Date("2")),
   With(CamsBase, "timeStep", JStr(<<"1h">>)),
   With(CamsBase, "timeStep", JStr(<<"15min">>)),
   With(CamsBase, "timeStep", JStr(<<"2h">>)),
   With(CamsBase, "identifier", JStr(<<"cams_radiation">>)),
   With(CamsBase, "identifier", JStr(<<"mcclear">>)),
   With(CamsBase, "integrated", JBool(TRUE)),
   With(CamsBase, "integrated", JBool(FALSE)),
   With(With(CamsBase, "integrated", JBool(TRUE)), "identifier", JStr(<<"mcclear">>))}

CamsRequests ==
  {Request("series", b) : b \in CamsBodies}
    \cup {Request("series", With(b, "email", JStr(CallerEmail))) :
            b \in {CamsBase, With(CamsBase, "integrated", JBool(TRUE)),
                   CamsBody(JInt(30), JInt(120), Date("2"), Date("1"))}}
    \cup {Request("series", InvalidJson),
          Request("series", With(CamsBase, "source", JStr(<<"era5">>)))}

Queries ==
  {<<>>, <<"a">>, <<" ", "a", " ">>, <<" ", " ">>, <<"a", "b">>, <<" ", "a", "b", " ">>,
   <<"a", "b", "c">>, <<"a", "b", ":", "5">>}

Limits == {JInt(-1), JInt(0), JInt(1), JInt(5), JInt(10), JInt(11), Half(2), JStr(<<"5">>)}

CountryCodes ==
  {<<"c", "n">>, <<"C", "N">>, <<"c", "n", ",", "u", "s">>, <<" ", "c", "n", " ">>,
   <<"c">>, <<"c", "n", ",">>, <<"a", "l", "l">>}

GeocodeRequests ==
  {Request("geocode", GeocodeBody(q)) : q \in Queries}
    \cup {Request("geocode", With(GeocodeBody(<<"a", "b">>), "limit", l)) : l \in Limits}
    \cup {Request("geocode", With(GeocodeBody(<<"a", "b">>), "countryCodes", JStr(c))) :
            c \in CountryCodes}
    \cup {Request("geocode", With(GeocodeBody(<<"a">>), "limit", JInt(5))),
          Request("geocode", With(GeocodeBody(<<>>), "limit", JInt(11))),
          Request("geocode", With(With(GeocodeBody(<<"a", "b">>), "limit", JInt(1)),
                                  "countryCodes", JStr(<<"c", "n">>))),
          Request("geocode", With(EmptyBody, "query", JInt(12))),
          Request("geocode", EmptyBody),
          Request("geocode", InvalidJson)}

InputRequests == TmyRequests \cup PvgisRequests \cup CamsRequests \cup GeocodeRequests

AccountEmail == <<"alice", "@", "example.org">>

ConfiguredEnv == [CAMS_SODA_EMAIL |-> JStr(AccountEmail)]

\* process.env.CAMS_SODA_EMAIL: set, unset, empty, blank
Envs ==
  {ConfiguredEnv, [CAMS_SODA_EMAIL |-> Absent], [CAMS_SODA_EMAIL |-> JStr(<<>>)],
   [CAMS_SODA_EMAIL |-> JStr(<<" ">>)]}

\* Provider replies.  v tells two good replies of a provider apart.
PvgisTime == JStr(<<"2", "0", "2", "0", "0", "1", "0", "1", ":", "0", "0", "0", "0">>)

TmyRow(v) ==
  ("time(UTC)" :> PvgisTime) @@ ("G(h)" :> JInt(v)) @@ ("Gb(n)" :> JInt(2))
    @@ ("Gd(h)" :> Null) @@ ("T2m" :> Half(7))

SeriesRow(v) ==
  ("time" :> PvgisTime) @@ ("Gb(i)" :> JInt(v)) @@ ("Gd(i)" :> Half(1))
    @@ ("Gr(i)" :> JInt(0)) @@ ("H_sun" :> JInt(12))

TmyReply(rows) == [inputs |-> "inputs", outputs |-> [tmy_hourly |-> rows]]
SeriesReply(rows) == [inputs |-> "inputs", outputs |-> [hourly |-> rows]]

CamsTime ==
  <<"2", "0", "2", "5", "-", "0", "1", "-", "0", "1", "T", "0", "0", ":", "0", "0", ":",
    "0", "0", "Z", "/",
    "2", "0", "2", "5", "-", "0", "1", "-", "0", "1", "T", "0", "1", ":", "0", "0", ":",
    "0", "0", "Z">>

CamsHeader == <<"#", " ", "Observation period", ";", "GHI", ";", "BNI", ";", "DHI", ";", "Reliability">>

CamsReply(v) ==
  [text |-> <<<<"#", " ", "Title", ":", " ", "CAMS">>,
              CamsHeader,
              CamsTime \o <<";", v, ";", "2", ";", "3", ";", "1">>>>]

NominatimItem(lat) ==
  [lat |-> <<lat>>, lon |-> <<"120.15">>, display_name |-> <<"Hangzhou">>,
   importance |-> Half(0)]

\* Two replies each adapter can package.
GoodReplies(adapter) ==
  CASE adapter = "geocodeAddressWithCountryCodes" ->
         {[items |-> <<NominatimItem("30.27")>>], [items |-> <<>>]}
    [] adapter = "fetchPvgisTmy" -> {TmyReply(<<TmyRow(5)>>), TmyReply(<<TmyRow(6)>>)}
    [] adapter = "fetchPvgisSeries" -> {SeriesReply(<<SeriesRow(5)>>), SeriesReply(<<SeriesRow(6)>>)}
    [] adapter = "fetchCamsSeries" -> {CamsReply("5"), CamsReply("6")}
    [] OTHER -> {}

\* Replies an adapter throws on: a second row with no time, a CSV with no header
\* line.
BadReplies(adapter) ==
  CASE adapter = "fetchPvgisTmy" -> {TmyReply(<<TmyRow(5), [k \in {"G(h)"} |-> JInt(5)]>>)}
    [] adapter = "fetchPvgisSeries" ->
         {SeriesReply(<<SeriesRow(5), [k \in {"Gb(i)"} |-> JInt(5)]>>)}
    [] adapter = "fetchCamsSeries" -> {[text |-> <<CamsTime \o <<";", "5">>>>]}
    [] OTHER -> {}

Ok(b) == [kind |-> "ok", body |-> b]

ServerError ==
  [kind |-> "http", status |-> 500, statusText |-> "Internal Server Error",
   text |-> <<"o", "o", "p", "s">>]

\* The provider's answers of the specification Spec: two good replies, a reply the
\* adapter cannot parse, a server error.
CoreOutcomes(adapter) ==
  IF adapter = "" THEN {}
  ELSE {Ok(b) : b \in GoodReplies(adapter)}
         \cup {Ok(b) : b \in BadReplies(adapter)}
         \cup {ServerError}

\* A PVGIS body with no outputs member.
NoOutputs == [inputs |-> "inputs", outputs |-> Absent]

\* The provider's answers of the specification SpecInputs: those, a body that is
\* not JSON, a PVGIS body with no outputs, no answer at all.
Outcomes(adapter) ==
  IF adapter = "" THEN {}
  ELSE {Ok(b) : b \in GoodReplies(adapter) \cup BadReplies(adapter)}
         \cup (IF TransportOf(adapter) = "fetchJson" THEN {Ok(InvalidJson)} ELSE {})
         \cup (IF adapter \in {"fetchPvgisTmy", "fetchPvgisSeries"} THEN {Ok(NoOutputs)} ELSE {})
         \cup {ServerError, [kind |-> "network"]}

TickSteps == {HourMs, 12 * HourMs}

\* The handler of a request that has just arrived.
Arrival(q) == [Idle EXCEPT !.pc = "start", !.ep = q.ep, !.body = q.body]

\* The store of a server that has taken one request alone, at time 0, as far as
\* handler h: a good reply cached if h went to its provider, nothing otherwise.
Served(h, e) ==
  IF h.pc = "fetching"
  THEN cacheSet(<<>>, h.cacheKey,
                AdapterResult(h, e, CHOOSE b \in GoodReplies(h.adapter) : TRUE).value, TtlMs(h), 0)
  ELSE <<>>

SeedRequests ==
  {Request("tmy", TmyBody(JInt(30), JInt(120))),
   Request("series", PvgisBody(JInt(30), JInt(120), JInt(2020), JInt(2021))),
   Request("series", CamsBase),
   Request("geocode", GeocodeBody(<<"a", "b">>))}

\* The stores SpecInputs starts from: empty, or left by one earlier request that
\* the environment lets through to its provider.
SeedStores(e) ==
  {Served(Route(Arrival(q), <<>>, 0, e).h, e) : q \in SeedRequests} \cup {<<>>}

(***************************************************************************)
(* Actions.                                                                *)
(***************************************************************************)
\* No browser has the page open, and no function is applied on its own.
NoPage == [open |-> FALSE]
NoCall == [fn |-> "none"]

Init ==
  /\ store = <<>>
  /\ now = 0
  /\ env = ConfiguredEnv
  /\ handlers = [r \in Slots |-> Idle]
  /\ started = 0
  /\ ticks = 0
  /\ page = NoPage
  /\ calc = NoCall

\* A request arrives: the handler runs up to its first await of the network, or to
\* the response if it needs none.
Start(r, q) ==
  /\ handlers[r].pc = "idle"
  /\ started < MaxRequests
  /\ LET a == Route(Arrival(q), store, now, env)
     IN  /\ handlers' = [handlers EXCEPT ![r] = a.h]
         /\ store' = a.store
  /\ started' = started + 1
  /\ UNCHANGED <<now, env, ticks, page, calc>>

\* The provider answers the attempt in flight: the loop returns and the handler
\* runs to its response, or the loop goes to sleep before the next attempt.
FetchReturns(r, outcome) ==
  LET h == handlers[r]
      got == Attempt(outcome, AsJson(h))
      a == Settle([h EXCEPT !.reply = got.value], store, now,
                  AdapterResult(h, env, got.value))
  IN  /\ h.pc = "fetching"
      /\ IF got.ok
         THEN /\ handlers' = [handlers EXCEPT ![r] = a.h]
              /\ store' = a.store
         ELSE /\ handlers' = [handlers EXCEPT ![r] =
                   IF LastAttempt(h.attempt)
                   THEN Catch([h EXCEPT !.lastErr = got, !.caught = @ \o <<outcome>>], got.error)
                   ELSE [h EXCEPT !.pc = "backoff", !.lastErr = got,
                                  !.caught = @ \o <<outcome>>]]
              /\ UNCHANGED store
      /\ UNCHANGED <<now, env, started, ticks, page, calc>>

\* The sleep of 250 * (attempt + 1) ms ends and the next attempt is issued.
BackoffEnds(r) ==
  /\ handlers[r].pc = "backoff"
  /\ handlers' = [handlers EXCEPT ![r] =
       [@ EXCEPT !.pc = "fetching", !.attempt = @ + 1, !.log = @ \o <<"fetch">>]]
  /\ UNCHANGED <<store, now, env, started, ticks, page, calc>>

\* The response has gone out and the handler is gone.
Finish(r) ==
  /\ handlers[r].pc = "done"
  /\ handlers' = [handlers EXCEPT ![r] = Idle]
  /\ UNCHANGED <<store, now, env, started, ticks, page, calc>>

\* Time passes.
Tick(d) ==
  /\ ticks < MaxTicks
  /\ now' = now + d
  /\ ticks' = ticks + 1
  /\ UNCHANGED <<store, env, handlers, started, page, calc>>

\* Spec: a configured server, overlapping requests, a clock that advances.
Next ==
  \/ \E r \in Slots, q \in CoreRequests : Start(r, q)
  \/ \E r \in Slots : \E o \in CoreOutcomes(handlers[r].adapter) : FetchReturns(r, o)
  \/ \E r \in Slots : BackoffEnds(r)
  \/ \E r \in Slots : Finish(r)
  \/ \E d \in TickSteps : Tick(d)

Spec == Init /\ [][Next]_vars

\* SpecInputs: one request of the wide sample, alone, against a server in any
\* environment whose cache is empty or holds the result of one earlier request.
InitInputs ==
  /\ env \in Envs
  /\ store \in SeedStores(env)
  /\ now = 0
  /\ handlers = [r \in Slots |-> Idle]
  /\ started = 0
  /\ ticks = 0
  /\ page = NoPage
  /\ calc = NoCall

Arrive(q) == started = 0 /\ Start(1, q)

NextInputs ==
  \/ \E q \in InputRequests : Arrive(q)
  \/ \E o \in Outcomes(handlers[1].adapter) : FetchReturns(1, o)
  \/ BackoffEnds(1)
  \/ Finish(1)

SpecInputs == InitInputs /\ [][NextInputs]_vars

(***************************************************************************)
(* The provider's side, wide: payloads of every shape the adapters tell    *)
(* apart, answered to one accepted request per adapter.                    *)
(***************************************************************************)
\* A record without column k.
Drop(r, k) == [c \in DOMAIN r \ {k} |-> r[c]]

\* A PVGIS time "YYYYMMDD:HH00" from the tokens of its year, month, day and hour.
Stamp(y, mo, d, hh) == JStr(y \o mo \o d \o <<":">> \o hh \o <<"0", "0">>)

Y2007 == <<"2", "0", "0", "7">>
Y2010 == <<"2", "0", "1", "0">>

Jan2010(hh) == Stamp(Y2010, <<"0", "1">>, <<"0", "1">>, hh)
Feb2007(hh) == Stamp(Y2007, <<"0", "2">>, <<"0", "1">>, hh)

TmyRowAt(time, gh) == [TmyRow(5) EXCEPT !["time(UTC)"] = time, !["G(h)"] = gh]

\* Typical-meteorological-year payloads: a column that is a number, null, a string
\* or missing; hours in order, repeated and out of order; months taken from
\* different years; a time that is missing, not a string or in another format; no
\* rows.
TmyReplies ==
  {TmyReply(<<TmyRowAt(Jan2010(<<"0", "0">>), g)>>) : g \in {JInt(5), Null, JStr(<<"n/a">>)}}
    \cup {TmyReply(<<Drop(TmyRow(5), "G(h)")>>),
          TmyReply(<<TmyRowAt(Jan2010(<<"0", "0">>), JInt(5)), TmyRowAt(Jan2010(<<"0", "1">>), JInt(6))>>),
          TmyReply(<<TmyRowAt(Jan2010(<<"0", "1">>), JInt(5)), TmyRowAt(Jan2010(<<"0", "0">>), JInt(6))>>),
          TmyReply(<<TmyRowAt(Jan2010(<<"0", "0">>), JInt(5)), TmyRowAt(Jan2010(<<"0", "0">>), JInt(6))>>),
          TmyReply(<<TmyRowAt(Jan2010(<<"2", "3">>), JInt(5)), TmyRowAt(Feb2007(<<"0", "0">>), JInt(6))>>),
          TmyReply(<<TmyRowAt(JInt(2010), JInt(5))>>),
          TmyReply(<<TmyRowAt(Null, JInt(5))>>),
          TmyReply(<<TmyRowAt(JStr(<<"2", "0", "1", "0", "-", "0", "1", "-", "0", "1">>), JInt(5))>>),
          TmyReply(<<TmyRowAt(Jan2010(<<"0", "0">>), JInt(5)), Drop(TmyRow(6), "time(UTC)"),
                     TmyRowAt(Jan2010(<<"0", "2">>), JInt(7))>>),
          TmyReply(<<>>),
          [inputs |-> "inputs", outputs |-> [months_selected |-> <<>>]]}

\* A series row whose three plane-of-array columns hold the given values, a column
\* given as Absent being left out of the row.
SeriesRowOf(time, gb, gd, gr) ==
  LET all == ("time" :> time) @@ ("Gb(i)" :> gb) @@ ("Gd(i)" :> gd) @@ ("Gr(i)" :> gr)
               @@ ("H_sun" :> JInt(12))
  IN  [k \in {c \in DOMAIN all : all[c] # Absent} |-> all[k]]

\* Series payloads: each plane-of-array column a number, null, a string or missing;
\* hours in and out of order; a row with no time.
SeriesReplies ==
  {SeriesReply(<<SeriesRowOf(Jan2010(<<"0", "0">>), gb, gd, gr)>>) :
     gb \in {Absent, Null, JInt(5), JStr(<<"7">>)},
     gd \in {Absent, Null, Half(1)},
     gr \in {Absent, Null, JInt(-2)}}
    \cup {SeriesReply(<<SeriesRowOf(Jan2010(<<"0", "0">>), JInt(5), Half(1), JInt(0)),
                        SeriesRowOf(Jan2010(<<"0", "1">>), JInt(6), Absent, Absent)>>),
          SeriesReply(<<SeriesRowOf(Jan2010(<<"0", "1">>), JInt(5), Half(1), JInt(0)),
                        SeriesRowOf(Jan2010(<<"0", "0">>), JInt(6), Absent, Absent)>>),
          SeriesReply(<<SeriesRowOf(Jan2010(<<"0", "0">>), JInt(5), Half(1), JInt(0)),
                        SeriesRowOf(Absent, JInt(6), Absent, Absent)>>),
          SeriesReply(<<>>),
          [inputs |-> "inputs", outputs |-> [totals |-> <<>>]]}

\* "2025-01-0dTHH:00:00" followed by the zone tz.
Instant(d, hh, tz) ==
  <<"2", "0", "2", "5", "-", "0", "1", "-", "0", d, "T">> \o hh
    \o <<":", "0", "0", ":", "0", "0">> \o tz

\* An observation period: the hour that starts at HH on 2025-01-01.
Period(hh, tz) == Instant("1", hh, tz) \o <<"/">> \o Instant("2", hh, tz)

\* cells.join(";")
CsvLine(cells) == JoinWith(cells, ";")

CamsRecord(hh, ghi, rel) == CsvLine(<<Period(hh, <<"Z">>), ghi, <<"2">>, <<"3">>, rel>>)

CamsTitle == <<"#", " ", "Title", ":", " ", "CAMS">>

Csv(lines) == [text |-> lines]

\* CSV payloads: records in and out of order; rows with too few and too many fields,
\* last and in the middle; comment and blank lines among the records; no header
\* marker, a marker that is not a comment, two markers; cells that are empty or not
\* numeric; observation periods that are empty, unreadable, without a zone and with
\* an offset; no records.
CamsCsvs ==
  {Csv(<<CamsTitle, CamsHeader, CamsRecord(<<"0", "0">>, <<"5">>, <<"1">>),
         CamsRecord(<<"0", "1">>, <<"6">>, <<"1">>)>>),
   Csv(<<CamsTitle, CamsHeader, CamsRecord(<<"0", "1">>, <<"5">>, <<"1">>),
         CamsRecord(<<"0", "0">>, <<"6">>, <<"1">>)>>),
   Csv(<<CamsTitle, CamsHeader, CamsRecord(<<"0", "0">>, <<"5">>, <<"1">>),
         CsvLine(<<Period(<<"0", "1">>, <<"Z">>), <<"6">>>>)>>),
   Csv(<<CamsTitle, CamsHeader,
         CsvLine(<<Period(<<"0", "0">>, <<"Z">>), <<"5">>, <<"2">>, <<"3">>, <<"1">>, <<"9">>>>),
         CamsRecord(<<"0", "1">>, <<"6">>, <<"1">>)>>),
   Csv(<<CamsTitle, CamsHeader, CamsRecord(<<"0", "0">>, <<"5">>, <<"1">>),
         <<"#", " ", "n", "o", "t", "e">>, <<" ">>, <<>>,
         CamsRecord(<<"0", "1">>, <<"6">>, <<"1">>)>>),
   Csv(<<CamsTitle, CamsRecord(<<"0", "0">>, <<"5">>, <<"1">>)>>),
   Csv(<<CamsTitle, Tail(Tail(CamsHeader)), CamsRecord(<<"0", "0">>, <<"5">>, <<"1">>)>>),
   Csv(<<CamsHeader, CamsRecord(<<"0", "0">>, <<"5">>, <<"1">>), CamsHeader,
         CamsRecord(<<"0", "1">>, <<"6">>, <<"1">>)>>),
   Csv(<<CamsTitle, CamsHeader, CamsRecord(<<"0", "0">>, <<"5">>, <<>>)>>),
   Csv(<<CamsTitle, CamsHeader, CamsRecord(<<"0", "0">>, <<"5">>, <<"n", "/", "a">>)>>),
   Csv(<<CamsTitle, CamsHeader, CamsRecord(<<"0", "0">>, <<"n", "/", "a">>, <<"1">>)>>),
   Csv(<<CamsTitle, CamsHeader, CamsRecord(<<"0", "0">>, <<>>, <<"1">>)>>),
   Csv(<<CamsTitle, CamsHeader, CamsRecord(<<"0", "0">>, <<"5">>, <<"1">>),
         CsvLine(<<<<>>, <<"6">>, <<"2">>, <<"3">>, <<"1">>>>)>>),
   Csv(<<CamsTitle, CamsHeader, CamsRecord(<<"0", "0">>, <<"5">>, <<"1">>),
         CsvLine(<<<<"n", "o", "o", "n">>, <<"6">>, <<"2">>, <<"3">>, <<"1">>>>)>>),
   Csv(<<CamsTitle, CamsHeader,
         CsvLine(<<Period(<<"0", "0">>, <<>>), <<"5">>, <<"2">>, <<"3">>, <<"1">>>>),
         CsvLine(<<Period(<<"0", "2">>, <<"+", "0", "1", ":", "0", "0">>), <<"6">>, <<"2">>,
                   <<"3">>, <<"1">>>>)>>),
   Csv(<<CamsTitle, CamsHeader>>)}

\* The provider's error message that states the years a coordinate has data for.
YearWindowError(lo, hi) ==
  [kind |-> "http", status |-> 400, statusText |-> "Bad Request",
   text |-> <<"startyear", ":", " ", "Incorrect", " ", "value", ".", " ", "Please", ",", " ",
              "enter", " ", "an", " ", "integer", " ", "between", " ">> \o lo
              \o <<" ", "and", " ">> \o hi \o <<".">>]

\* A gateway error whose body is one character longer than the transport quotes,
\* and one with no body.
LongBodyLen == 401

LongError ==
  [kind |-> "http", status |-> 502, statusText |-> "Bad Gateway",
   text |-> [i \in 1..LongBodyLen |-> IF i = LongBodyLen THEN "!" ELSE "x"]]

EmptyError == [kind |-> "http", status |-> 503, statusText |-> "Service Unavailable", text |-> <<>>]

Y2005 == <<"2", "0", "0", "5">>
Y2023 == <<"2", "0", "2", "3">>

WideReplies(adapter) ==
  CASE adapter = "fetchPvgisTmy" -> TmyReplies
    [] adapter = "fetchPvgisSeries" -> SeriesReplies
    [] adapter = "fetchCamsSeries" -> CamsCsvs
    [] OTHER -> {}

\* The provider's answers of the specification SpecReplies.
ReplyOutcomes(adapter) ==
  IF adapter = "" THEN {}
  ELSE Outcomes(adapter)
         \cup {Ok(b) : b \in WideReplies(adapter)}
         \cup {YearWindowError(Y2005, Y2023), YearWindowError(Y2023, Y2005),
               YearWindowError(Y2005, Y2005), LongError, EmptyError}

\* One request each adapter accepts; for CAMS, with integrated true, false and
\* left out.
AdapterRequests ==
  {Request("tmy", TmyBody(JInt(30), JInt(120))),
   Request("series", PvgisBody(JInt(30), JInt(120), JInt(2020), JInt(2021))),
   Request("series", CamsBase),
   Request("series", With(CamsBase, "integrated", JBool(TRUE))),
   Request("series", With(CamsBase, "integrated", JBool(FALSE))),
   Request("geocode", GeocodeBody(<<"a", "b">>))}

\* SpecReplies: a configured server with an empty cache takes one accepted request
\* and its provider answers with anything.
NextReplies ==
  \/ \E q \in AdapterRequests : Arrive(q)
  \/ \E o \in ReplyOutcomes(handlers[1].adapter) : FetchReturns(1, o)
  \/ BackoffEnds(1)
  \/ Finish(1)

SpecReplies == Init /\ [][NextReplies]_vars

\* SpecRepliesFair: the same, and no await lasts for ever.  An attempt in flight
\* ends, with the provider's answer or with the abort that setTimeout(() =>
\* controller.abort(), timeoutMs) delivers; the sleep before a retry ends when its
\* timer fires.
AttemptEnds == \E o \in ReplyOutcomes(handlers[1].adapter) : FetchReturns(1, o)

SpecRepliesFair == SpecReplies /\ WF_vars(AttemptEnds) /\ WF_vars(BackoffEnds(1))


(***************************************************************************)
(* Properties.  The vocabulary they share: a handler has succeeded or      *)
(* failed by the status of its response; Calls counts a call in its log;   *)
(* Arrives and Completes are the steps in which the handler of slot r      *)
(* takes its request and gets its adapter's last reply.                    *)
(***************************************************************************)
Succeeded(h) == h.pc = "done" /\ h.resp.status = 200
Failed(h) == h.pc = "done" /\ h.resp.status # 200

Calls(h, name) == Cardinality({i \in 1..Len(h.log) : h.log[i] = name})

Arrives(r) == handlers[r].pc = "idle" /\ handlers'[r].pc # "idle"
Completes(r) == handlers[r].pc = "fetching" /\ handlers'[r].pc = "done"

\* body is value with metadata.cached set and nothing else changed.
IsCachedCopy(body, value) ==
  /\ DOMAIN body = DOMAIN value
  /\ \A f \in DOMAIN value \ {"metadata"} : body[f] = value[f]
  /\ DOMAIN body.metadata = DOMAIN value.metadata \cup {"cached"}
  /\ body.metadata.cached = TRUE
  /\ \A f \in DOMAIN value.metadata \ {"cached"} : body.metadata[f] = value.metadata[f]

\* Every key but k has the same entry, or none, before and after the step.
OtherKeysUnchanged(k) ==
  /\ DOMAIN store' \ {k} = DOMAIN store \ {k}
  /\ \A j \in DOMAIN store \ {k} : store'[j] = store[j]

C1_Arrival(r) ==
  LET h == handlers'[r]
      k == h.cacheKey
  IN  (Arrives(r) /\ k \in DOMAIN store) =>
        /\ now < store[k].expiresAt =>
              /\ Succeeded(h)
              /\ IsCachedCopy(h.resp.body, store[k].value)
              /\ Calls(h, "fetch") = 0
              /\ store' = store
        /\ now > store[k].expiresAt =>
              /\ h.pc = "fetching"
              /\ Calls(h, "fetch") = 1
              /\ k \notin DOMAIN store'

C1_Refill(r) ==
  LET h == handlers'[r]
      k == h.cacheKey
  IN  (Completes(r) /\ Succeeded(h)) =>
        /\ k \in DOMAIN store'
        /\ store'[k].value = h.resp.body
        /\ store'[k].expiresAt > now

\* C1: on the tmy and series routes, a request that arrives while the entry under
\* its key has not reached its expiry is answered with the cached value, marked
\* cached, without any outbound call and without touching the store; a request that
\* arrives after the expiry finds the entry gone, issues an outbound call, and when
\* that succeeds its result is the entry under the key, expiring in the future.
C1_CacheHitUntilExpiry == [][\A r \in Slots : C1_Arrival(r) /\ C1_Refill(r)]_vars

\* A request answered from the cache: one cache read, no adapter, a live entry.
C1_Witness ==
  \E r \in Slots :
    /\ Succeeded(handlers[r])
    /\ handlers[r].log = <<"cacheGet">>
    /\ handlers[r].cacheKey \in DOMAIN store
    /\ handlers[r].resp.body.metadata.cached = TRUE

\* The same for a request that came after the expiry and refilled the entry.
C1_WitnessRefill ==
  \E r \in Slots :
    /\ Succeeded(handlers[r])
    /\ Calls(handlers[r], "store.delete") = 1
    /\ Calls(handlers[r], "cacheSet") = 1
    /\ store[handlers[r].cacheKey].value = handlers[r].resp.body

\* What cacheGet(k) gives at times around the expiry of every entry in the store.
C2_Reads ==
  \A k \in DOMAIN store :
    \A t \in {store[k].expiresAt - 1, store[k].expiresAt, store[k].expiresAt + 1, now} :
      IF t > store[k].expiresAt
      THEN /\ cacheGetValue(store, k, t) = Absent
           /\ DOMAIN cacheGetStore(store, k, t) = DOMAIN store \ {k}
           /\ \A j \in DOMAIN store \ {k} : cacheGetStore(store, k, t)[j] = store[j]
      ELSE /\ cacheGetValue(store, k, t) = store[k].value
           /\ cacheGetStore(store, k, t) = store

\* How the entry under k may differ after a step.
C2_Writes ==
  \A k \in DOMAIN store \cup DOMAIN store' :
    /\ (k \in DOMAIN store /\ k \notin DOMAIN store') =>
          /\ now > store[k].expiresAt
          /\ \E r \in Slots : Arrives(r) /\ handlers'[r].cacheKey = k
    /\ (k \in DOMAIN store' /\ (k \notin DOMAIN store \/ store'[k] # store[k])) =>
          \E r \in Slots :
            /\ Completes(r)
            /\ handlers'[r].cacheKey = k
            /\ Calls(handlers'[r], "cacheSet") = 1
            /\ store'[k].expiresAt = now + TtlMs(handlers'[r])

\* C2: an entry written at time t0 with ttlMs expires at t0 + ttlMs; a cacheGet at
\* a time past expiresAt returns absent and removes exactly that entry, a cacheGet
\* up to expiresAt returns the stored value and leaves the store as it is; an entry
\* leaves the store only in a step that reads its key after its expiry, and an entry
\* appears or changes only in a step that calls cacheSet on its key.
C2_EntryLifetime == []C2_Reads /\ [][C2_Writes]_vars

\* A read has just evicted an expired entry: the handler is on its way to the
\* provider and its key is gone from the store.
C2_Witness ==
  \E r \in Slots :
    /\ handlers[r].pc = "fetching"
    /\ Calls(handlers[r], "store.delete") = 1
    /\ handlers[r].cacheKey \notin DOMAIN store
    /\ now > 0

\* A request that has failed made no call that changes the store.
C3_CacheExactlyAsBefore ==
  \A r \in Slots :
    Failed(handlers[r]) =>
      Calls(handlers[r], "store.delete") = 0 /\ Calls(handlers[r], "cacheSet") = 0

\* Every cached value is a whole response: its metadata and all its points.
C3_NoPartial ==
  \A k \in DOMAIN store :
    /\ DOMAIN store[k].value = {"metadata", "data"}
    /\ {"requestUrl", "rawInputs", "source", "queryType"} \subseteq DOMAIN store[k].value.metadata

\* A step of a request that does not end in its success changes nothing in the
\* store, or removes the expired entry under the request's own key on arrival.
C3_Step(r) ==
  LET h == handlers'[r]
      k == h.cacheKey
  IN  (h # handlers[r] /\ ~Succeeded(h)) =>
        \/ store' = store
        \/ /\ Arrives(r)
           /\ k \in DOMAIN store
           /\ now > store[k].expiresAt
           /\ k \notin DOMAIN store'
           /\ OtherKeysUnchanged(k)

\* C3 (amended): a request that fails -- in validation, in transport after its
\* retries, in parsing the payload -- never creates or overwrites an entry, and no
\* entry holds a partial response; the one change such a request can make to the
\* store is the removal, by its own cacheGet, of an entry under its key that had
\* already expired.
C3_NoWriteOnFailure ==
  /\ [](C3_NoPartial /\ \A r \in Slots : Failed(handlers[r]) => Calls(handlers[r], "cacheSet") = 0)
  /\ [][\A r \in Slots : C3_Step(r)]_vars

\* A request that evicted the expired entry under its key and then failed in
\* transport, after its retry.
C3_Witness ==
  \E r \in Slots :
    /\ Failed(handlers[r])
    /\ Calls(handlers[r], "store.delete") = 1
    /\ Calls(handlers[r], "fetch") = 1 + Retries
    /\ handlers[r].cacheKey \notin DOMAIN store

C4_Step(r) ==
  LET h == handlers'[r]
      k == h.cacheKey
  IN  /\ (Completes(r) /\ Succeeded(h)) =>
            store'[k] = [value |-> h.resp.body, expiresAt |-> now + TtlMs(h)]
      /\ h # handlers[r] => OtherKeysUnchanged(k)

\* C4: when a request completes successfully, the entry under its key is its own
\* result with its own expiry, whatever another request on the same key wrote before
\* (the last writer wins), and no step of a request changes an entry under any other
\* key.  Two requests on the same cold key can both be waiting for the provider.
C4_LastWriteWins == [][\A r \in Slots : C4_Step(r)]_vars

\* Both requests missed on the same key, both fetched and succeeded with different
\* results, and the entry is the result of one of them.
C4_Witness ==
  /\ Succeeded(handlers[1]) /\ Succeeded(handlers[2])
  /\ handlers[1].cacheKey = handlers[2].cacheKey
  /\ Calls(handlers[1], "fetch") >= 1 /\ Calls(handlers[2], "fetch") >= 1
  /\ handlers[1].resp.body # handlers[2].resp.body
  /\ store[handlers[1].cacheKey].value = handlers[2].resp.body

(***************************************************************************)
(* Properties of one request, under SpecInputs.                            *)
(***************************************************************************)
\* What request q does on a server with an empty cache, up to its first await.
Cold(q, e) == Route(Arrival(q), <<>>, 0, e).h

Range(s) == {s[i] : i \in DOMAIN s}

\* The requestUrl of a response body of any route.
ResponseUrl(body) ==
  IF "metadata" \in DOMAIN body THEN body.metadata.requestUrl ELSE body.requestUrl

\* C5: two validated requests have the same cache key exactly when they call the
\* same adapter with the same upstream URL, which carries the provider, the query
\* type and every effective parameter; the key of a request does not depend on what
\* the cache holds; and a response served from the cache carries the upstream URL of
\* the request it is served to.
C5_KeyIdentifiesRequest ==
  LET h == handlers[1]
      mine == Cold(Request(h.ep, h.body), env)
  IN  (h.pc # "idle" /\ mine.pc = "fetching") =>
        /\ h.cacheKey = mine.cacheKey
        /\ \A q \in InputRequests :
             Cold(q, env).pc = "fetching" =>
               (Cold(q, env).cacheKey = mine.cacheKey
                  <=> (Cold(q, env).adapter = mine.adapter /\ Cold(q, env).url = mine.url))
        /\ (Succeeded(h) /\ h.log = <<"cacheGet">>) => ResponseUrl(h.resp.body) = mine.url

\* A request served from the entry that a request with another body left: the two
\* bodies differ only in how they spell the same effective parameters.
C5_Witness ==
  /\ Succeeded(handlers[1])
  /\ handlers[1].log = <<"cacheGet">>
  /\ Request(handlers[1].ep, handlers[1].body) \notin SeedRequests

\* v is a number outside [lo, hi]; v is anything but an integer in [lo, hi].
OutOf(v, lo, hi) == v.t = "num" /\ (Halves(v) < 2 * lo \/ Halves(v) > 2 * hi)
NotIntIn(v, lo, hi) == v.t # "num" \/ v.half \/ Halves(v) < 2 * lo \/ Halves(v) > 2 * hi

\* The calendar date YYYY-MM-DD as the number YYYYMMDD.
DateNumber(s) ==
  10000 * NumberOfDigits(SubSeq(s, 1, 4)) + 100 * NumberOfDigits(SubSeq(s, 6, 7))
    + NumberOfDigits(SubSeq(s, 9, 10))

IsDateField(v) == v.t = "str" /\ MatchesDate(Trim(v.s))

\* The requests C6 speaks of.
C6_Case(ep, b) ==
  /\ ep \in {"tmy", "series"}
  /\ b # InvalidJson
  /\ \/ OutOf(b.lat, -90, 90)
     \/ OutOf(b.lon, -180, 180)
     \/ /\ ep = "series"
        /\ b.source = JStr(<<"pvgis">>)
        /\ \/ NotIntIn(b.startYear, 1990, 2100)
           \/ NotIntIn(b.endYear, 1990, 2100)
           \/ Halves(b.endYear) < Halves(b.startYear)
     \/ /\ ep = "series"
        /\ b.source = JStr(<<"cams">>)
        /\ IsDateField(b.start) /\ IsDateField(b.end)
        /\ DateNumber(Trim(b.end.s)) < DateNumber(Trim(b.start.s))

\* The response is an error and the request made no call and left the store alone.
RejectedUntouched(r) ==
  /\ Failed(handlers'[r])
  /\ "error" \in DOMAIN handlers'[r].resp.body
  /\ handlers'[r].log = <<>>
  /\ store' = store

\* C6: a tmy or series request with lat outside [-90, 90], lon outside [-180, 180],
\* a start or end year that is not an integer in [1990, 2100], endYear < startYear,
\* or (CAMS) an end date before the start date is answered with an error in the step
\* it arrives in, having called neither the cache nor an adapter.
C6_RejectedBeforeAnyCall ==
  [][(Arrives(1) /\ C6_Case(handlers'[1].ep, handlers'[1].body)) => RejectedUntouched(1)]_vars

\* A CAMS request with end before start, rejected by a server whose email is set
\* and whose cache holds an entry.
C6_Witness ==
  /\ env = ConfiguredEnv
  /\ store # <<>>
  /\ Failed(handlers[1])
  /\ handlers[1].body = CamsBody(JInt(30), JInt(120), Date("2"), Date("1"))
  /\ handlers[1].resp.body = [error |-> <<"end must be >= start">>]

\* The geocode requests C7 calls rejected, and those it calls accepted.
C7_Short(b) ==
  /\ b # InvalidJson
  /\ \/ b.query.t = "str" /\ Len(Trim(b.query.s)) < 2
     \/ b.limit # Absent /\ NotIntIn(b.limit, 1, 10)

C7_Long(b) ==
  /\ b # InvalidJson
  /\ b.query.t = "str" /\ Len(Trim(b.query.s)) >= 2
  /\ b.limit = Absent \/ ~NotIntIn(b.limit, 1, 10)
  /\ b.countryCodes = Absent

C7_Arrival ==
  (Arrives(1) /\ handlers'[1].ep = "geocode") =>
    /\ C7_Short(handlers'[1].body) => RejectedUntouched(1)
    /\ C7_Long(handlers'[1].body) =>
          /\ handlers'[1].log[1] = "cacheGet"
          /\ handlers'[1].pc = "fetching" \/ Succeeded(handlers'[1])

\* A geocode request makes at most one call of the transport client, which makes at
\* most 1 + retries outbound attempts.
C7_OneTransportCall ==
  handlers[1].ep = "geocode" =>
    /\ Calls(handlers[1], "fetchJson") <= 1
    /\ Calls(handlers[1], "fetchText") = 0
    /\ Calls(handlers[1], "fetch") <= 1 + Retries

\* C7: a geocode request whose query, trimmed, has fewer than 2 characters, or whose
\* limit is not an integer in [1, 10], is answered with an error in the step it
\* arrives in, having called neither the cache nor the adapter; a request whose
\* query, trimmed, has 2 characters or more (and whose limit, if any, is valid) gets
\* past validation to the cache read, and calls the transport client at most once.
C7_GeocodeValidation == []C7_OneTransportCall /\ [][C7_Arrival]_vars

\* The query " a " rejected, on a server whose cache holds an entry.
C7_Witness ==
  /\ Failed(handlers[1])
  /\ handlers[1].ep = "geocode"
  /\ handlers[1].body = GeocodeBody(<<" ", "a", " ">>)
  /\ handlers[1].log = <<>>
  /\ store # <<>>

\* The query "ab" on its second outbound attempt, still inside its one transport call.
C7_WitnessAccepted ==
  /\ handlers[1].pc = "fetching"
  /\ handlers[1].body = GeocodeBody(<<"a", "b">>)
  /\ handlers[1].attempt = 1
  /\ Calls(handlers[1], "fetchJson") = 1

IsCams(b) == b # InvalidJson /\ b.source = JStr(<<"cams">>)

\* CAMS_SODA_EMAIL is unset or empty; it is unset, empty or blank.
NotConfigured(e) == e.CAMS_SODA_EMAIL = Absent \/ e.CAMS_SODA_EMAIL.s = <<>>
Blank(e) == NotConfigured(e) \/ Trim(e.CAMS_SODA_EMAIL.s) = <<>>

C8_Arrival ==
  (Arrives(1) /\ handlers'[1].ep = "series" /\ IsCams(handlers'[1].body) /\ NotConfigured(env))
    => RejectedUntouched(1)

C8_NoCall ==
  (handlers[1].ep = "series" /\ IsCams(handlers[1].body) /\ Blank(env)) =>
    /\ Failed(handlers[1])
    /\ Calls(handlers[1], "fetch") = 0
    /\ Calls(handlers[1], "fetchText") = 0
    /\ Calls(handlers[1], "cacheSet") = 0
    /\ Calls(handlers[1], "fetchPvgisSeries") = 0

\* C8: while CAMS_SODA_EMAIL is unset or empty, a CAMS series request is answered
\* with an error in the step it arrives in, having called neither the cache nor any
\* adapter; and whenever the email is unset, empty or blank the request fails with
\* no outbound attempt, no cache write and no call of the PVGIS adapter.
C8_FailsFastWithoutEmail == []C8_NoCall /\ [][C8_Arrival]_vars

\* A well-formed CAMS request refused for the missing email.
C8_Witness ==
  /\ env.CAMS_SODA_EMAIL = Absent
  /\ Failed(handlers[1])
  /\ handlers[1].body = CamsBase
  /\ handlers[1].resp.body = [error |-> <<"Missing CAMS_SODA_EMAIL in server env">>]

\* The bodies agree on every field of the schemas.
SameButEmail(b, c) == \A f \in Fields \ {"email"} : b[f] = c[f]

\* C9: the upstream URL of a CAMS request carries the configured email and nothing
\* of an email the caller sent, and a request that differs from it only in a body
\* field outside the schema has the same upstream URL and the same cache key.
C9_EmailFromServerOnly ==
  LET h == handlers[1]
  IN  (h.adapter = "fetchCamsSeries" /\ h.url # <<>>) =>
        /\ env.CAMS_SODA_EMAIL # Absent
        /\ Range(UrlEncode(EmailEscaped(env.CAMS_SODA_EMAIL.s))) \subseteq Range(h.url)
        /\ Range(CallerEmail) \cap Range(h.url) = {}
        /\ \A q \in InputRequests :
             (q.ep = "series" /\ q.body # InvalidJson /\ SameButEmail(q.body, h.body)) =>
               /\ Cold(q, env).url = h.url
               /\ Cold(q, env).cacheKey = h.cacheKey

\* A CAMS request whose body carries an email, waiting for the provider.
C9_Witness ==
  /\ handlers[1].pc = "fetching"
  /\ handlers[1].adapter = "fetchCamsSeries"
  /\ handlers[1].body.email = JStr(CallerEmail)

\* The local part and the domain of the email both occur in the URL.
Discloses(url, email) == Range(email) \ {"@"} \subseteq Range(url)

\* C10: no successful CAMS response, fresh or served from the cache, has the local
\* part and the domain of the configured account email in metadata.requestUrl,
\* or an email in metadata.rawInputs.params.
C10_CredentialsRedacted ==
  LET h == handlers[1]
  IN  (Succeeded(h) /\ h.ep = "series" /\ h.resp.body.metadata.source = "cams") =>
        /\ ~Discloses(h.resp.body.metadata.requestUrl, env.CAMS_SODA_EMAIL.s)
        /\ h.resp.body.metadata.rawInputs.params.email = Absent


(***************************************************************************)
(* Properties of the adapters' responses.  Produced(h): the handler has    *)
(* answered with the IrradianceResponse its adapter made of the reply.     *)
(***************************************************************************)
Produced(h) == Succeeded(h) /\ h.adapter \in {"fetchPvgisTmy", "fetchPvgisSeries", "fetchCamsSeries"}

Points(h) == h.resp.body.data

\* C11: every IrradianceResponse an adapter produces has exactly one of
\* metadata.unit.irradiance and metadata.unit.irradiation: PVGIS tmy and series
\* carry irradiance "W/m2"; CAMS carries irradiation "Wh/m2" when the request
\* says integrated: true and irradiance "W/m2" when it says false or nothing.
C11_ExactlyOneUnit ==
  \A r \in Slots :
    LET h == handlers[r]
        unit == h.resp.body.metadata.unit
    IN  Produced(h) =>
          /\ Cardinality(DOMAIN unit \cap {"irradiance", "irradiation"}) = 1
          /\ unit = IF h.adapter = "fetchCamsSeries" /\ h.body.integrated = JBool(TRUE)
                    THEN [irradiation |-> "Wh/m2"]
                    ELSE [irradiance |-> "W/m2"]

C11_Witness ==
  /\ Produced(handlers[1])
  /\ handlers[1].adapter = "fetchCamsSeries"
  /\ handlers[1].body.integrated = JBool(FALSE)
  /\ handlers[1].resp.body.metadata.unit = [irradiance |-> "W/m2"]


\* The rows of a PVGIS payload: outputs[member] ?? [].
RowsOf(reply, member) == IF member \in DOMAIN reply.outputs THEN reply.outputs[member] ELSE <<>>

\* Twice the number in column c of a row, 0 if the row has no number there.
Component(row, c) == IF c \in DOMAIN row /\ row[c].t = "num" THEN Halves(row[c]) ELSE 0

PoaColumns == {"Gb(i)", "Gd(i)", "Gr(i)"}

HasNumber(row, cols) == \E c \in cols : c \in DOMAIN row /\ row[c].t = "num"

\* C12: in a PVGIS series response, the ghi of the point of each row is the sum of
\* the row's Gb(i), Gd(i), Gr(i) that are numbers, a missing one counting as zero,
\* when at least one of them is a number, and null when none is; dni and dhi are
\* null in every point.
C12_SeriesGhiIsSum ==
  \A r \in Slots :
    LET h == handlers[r]
        rows == RowsOf(h.reply, "hourly")
    IN  Produced(h) /\ h.adapter = "fetchPvgisSeries" =>
          /\ Len(Points(h)) = Len(rows)
          /\ \A i \in 1..Len(rows) :
               LET pt == Points(h)[i]
               IN  /\ pt.dni = Null
                   /\ pt.dhi = Null
                   /\ IF HasNumber(rows[i], PoaColumns)
                      THEN /\ pt.ghi.t = "num"
                           /\ Halves(pt.ghi) = Component(rows[i], "Gb(i)")
                                + Component(rows[i], "Gd(i)") + Component(rows[i], "Gr(i)")
                      ELSE pt.ghi = Null

C12_Witness ==
  LET h == handlers[1]
  IN  /\ Produced(h)
      /\ h.adapter = "fetchPvgisSeries"
      /\ h.reply = SeriesReply(<<SeriesRowOf(Jan2010(<<"0", "0">>), JInt(5), Null, Absent)>>)
      /\ Points(h)[1].ghi = JInt(5)


\* The provider rows an adapter maps to points, and for each adapter the column
\* that holds the time and the columns its canonical fields are read from.
RawRows(h) ==
  CASE h.adapter = "fetchPvgisTmy" -> RowsOf(h.reply, "tmy_hourly")
    [] h.adapter = "fetchPvgisSeries" -> RowsOf(h.reply, "hourly")
    [] h.adapter = "fetchCamsSeries" -> parseCamsCsv(h.reply).value.rows

TimeColumn(adapter) ==
  CASE adapter = "fetchPvgisTmy" -> "time(UTC)"
    [] adapter = "fetchPvgisSeries" -> "time"
    [] adapter = "fetchCamsSeries" -> "Observation period"

CanonicalColumns(adapter) ==
  CASE adapter = "fetchPvgisTmy" -> [ghi |-> "G(h)", dni |-> "Gb(n)", dhi |-> "Gd(h)"]
    [] adapter = "fetchPvgisSeries" -> <<>>
    [] adapter = "fetchCamsSeries" -> [ghi |-> "GHI", dni |-> "BNI", dhi |-> "DHI"]

\* Column c of the row is carried by the point: by a canonical field that is not
\* null, or under extras; a JSON null the provider sent is carried by a null field.
Carried(h, row, pt, c) ==
  \/ \E f \in DOMAIN CanonicalColumns(h.adapter) :
       CanonicalColumns(h.adapter)[f] = c /\ (pt[f] # Null \/ row[c] = Null)
  \/ c \in DOMAIN pt.extras

\* C13: no provider value is dropped: in every point an adapter emits, each column
\* of the provider's row other than the time is carried by a canonical field that
\* is not null or is present under extras.
C13_NothingDropped ==
  \A r \in Slots :
    LET h == handlers[r]
    IN  Produced(h) =>
          \A i \in 1..Len(Points(h)) :
            \A c \in DOMAIN RawRows(h)[i] \ {TimeColumn(h.adapter)} :
              Carried(h, RawRows(h)[i], Points(h)[i], c)


\* The fields of a line of text, by the positions of its semicolons.
Semicolons(line) == {i \in 1..Len(line) : line[i] = ";"}

FieldCount(line) == Cardinality(Semicolons(line)) + 1

\* The position of the k-th semicolon; 0 for k = 0, past the end when there is none.
Cut(line, k) ==
  IF k = 0 THEN 0
  ELSE IF k > Cardinality(Semicolons(line)) THEN Len(line) + 1
  ELSE CHOOSE p \in Semicolons(line) : Cardinality({q \in Semicolons(line) : q < p}) = k - 1

Field(line, j) == SubSeq(line, Cut(line, j - 1) + 1, Cut(line, j) - 1)

\* The header marker lines of a payload: comment lines that read
\* "Observation period", then a semicolon.
MarkerLines(text) ==
  {i \in 1..Len(text) : StartsWithHash(text[i]) /\ IsHeaderMarker(DropHash(text[i]))}

\* The header line of a payload that has one: its last marker line.
HeaderAt(text) == CHOOSE m \in MarkerLines(text) : \A k \in MarkerLines(text) : k <= m

\* The lines that are records: after the header line, not comments, as many fields
\* as the header.
RecordLines(text) ==
  SelectSeq(SubSeq(text, HeaderAt(text) + 1, Len(text)),
            LAMBDA l : ~StartsWithHash(l) /\ FieldCount(l) = FieldCount(text[HeaderAt(text)]))

\* What parseCamsCsv makes of a payload is what the payload's text says.
ParsedAsWritten(csv) ==
  LET parsed == parseCamsCsv(csv)
      hdr == DropHash(csv.text[HeaderAt(csv.text)])
      recs == RecordLines(csv.text)
  IN  IF MarkerLines(csv.text) = {} THEN ~parsed.ok
      ELSE /\ parsed.ok
           /\ Len(parsed.value.rows) = Len(recs)
           /\ \A i \in 1..Len(recs) : \A j \in 1..FieldCount(hdr) :
                parsed.value.rows[i][Join(Trim(Field(hdr, j)))].s = Trim(Field(recs[i], j))

IsCamsReply(h) == h.adapter = "fetchCamsSeries" /\ h.reply # Absent

\* C14: the CAMS CSV parser takes as records exactly the lines after the header
\* marker line that are not comments and have as many semicolon-separated fields as
\* the header, in order; a line with another field count is skipped and changes
\* nothing else; a payload with no header marker line fails the parse, and the
\* request, with an error.
C14_RecordsAsWritten ==
  \A r \in Slots :
    LET h == handlers[r]
    IN  IsCamsReply(h) =>
          /\ ParsedAsWritten(h.reply)
          /\ MarkerLines(h.reply.text) = {} =>
               Failed(h) /\ h.resp.body.error = <<"CAMS CSV missing header line">>
          /\ Succeeded(h) => Len(Points(h)) = Len(RecordLines(h.reply.text))

C14_Witness ==
  LET h == handlers[1]
  IN  /\ IsCamsReply(h)
      /\ h.reply = Csv(<<CamsTitle, CamsHeader,
                         CsvLine(<<Period(<<"0", "0">>, <<"Z">>), <<"5">>, <<"2">>, <<"3">>,
                                   <<"1">>, <<"9">>>>),
                         CamsRecord(<<"0", "1">>, <<"6">>, <<"1">>)>>)
      /\ Succeeded(h)
      /\ Len(Points(h)) = 1
      /\ Points(h)[1].ghi = JInt(6)


\* A cell that reads as a number: not empty, and a decimal literal.
IsNumericLiteral(cell) == cell # <<>> /\ StrToNumber(cell) # NaN

\* C15: for every CAMS record, every column other than the observation period and
\* GHI, BNI, DHI is under extras with the same key: as the number it reads as when
\* it is a numeric literal, as the unchanged string otherwise, an empty cell
\* included.
C15_ExtrasAsWritten ==
  \A r \in Slots :
    LET h == handlers[r]
    IN  Produced(h) /\ h.adapter = "fetchCamsSeries" =>
          \A i \in 1..Len(Points(h)) :
            \A c \in DOMAIN RawRows(h)[i] \ {"Observation period", "GHI", "BNI", "DHI"} :
              /\ c \in DOMAIN Points(h)[i].extras
              /\ Points(h)[i].extras[c] =
                   IF IsNumericLiteral(RawRows(h)[i][c].s) THEN StrToNumber(RawRows(h)[i][c].s)
                   ELSE RawRows(h)[i][c]


\* The handler failed on the transport's last error, whose message it reports.
FailedUpstream(h) == Failed(h) /\ h.lastErr # Absent /\ h.resp.body.error = h.lastErr.error

CarriesWindow(body) == {"yearMin", "yearMax"} \subseteq DOMAIN body

\* C16: when a series request fails on an upstream message that states the valid
\* year window ("between 2005 and 2023"), the error response carries the window as
\* yearMin and yearMax next to the message; and in every error response that
\* carries them, yearMin <= yearMax.
C16_YearWindowOrdered ==
  \A r \in Slots :
    LET h == handlers[r]
        body == h.resp.body
    IN  Failed(h) /\ h.ep = "series" =>
          /\ FailedUpstream(h) /\ YearRange(h.lastErr.error) # Absent =>
               /\ CarriesWindow(body)
               /\ body.yearMin = YearRange(h.lastErr.error).yearMin
               /\ body.yearMax = YearRange(h.lastErr.error).yearMax
          /\ CarriesWindow(body) =>
               /\ body.yearMin \in Nat
               /\ body.yearMax \in Nat
               /\ body.yearMin <= body.yearMax


\* The three classes of failure.  Fix input: the request was refused before the
\* cache was read, by validation or by the range check.  Retry later: the transport
\* gave up on an upstream error or timeout.  Fix configuration: the server has no
\* CAMS account email.
MissingEmail == <<"Missing CAMS_SODA_EMAIL in server env">>

FixConfiguration(h) == Failed(h) /\ h.resp.body.error = MissingEmail

FixInput(h) == Failed(h) /\ Calls(h, "cacheGet") = 0 /\ ~FixConfiguration(h)

RetryLater(h) == FailedUpstream(h)

\* What an error response says apart from its free message text: the status code
\* and every field of the body but error.
Structure(resp) ==
  [status |-> resp.status, fields |-> [k \in DOMAIN resp.body \ {"error"} |-> resp.body[k]]]

\* C17: the error responses of two failures of different classes (fix input, retry
\* later, fix configuration) differ in a structured field, status code or error
\* kind, and not only in the message text.
C17_ClassesDifferInStructure ==
  \A r1, r2 \in Slots :
    LET h1 == handlers[r1]
        h2 == handlers[r2]
    IN  \/ FixInput(h1) /\ RetryLater(h2)
        \/ FixInput(h1) /\ FixConfiguration(h2)
        \/ RetryLater(h1) /\ FixConfiguration(h2)
        => Structure(h1.resp) # Structure(h2.resp)


\* The transport returned a payload to one of the three irradiance adapters, and
\* the adapter found rows in it.
HasRows(h) ==
  /\ h.reply # Absent
  /\ \/ h.adapter \in {"fetchPvgisTmy", "fetchPvgisSeries"} /\ h.reply.outputs # Absent
     \/ h.adapter = "fetchCamsSeries" /\ parseCamsCsv(h.reply).ok

\* The row's timestamp is there and in the provider's format.
TimeReadable(h, row) ==
  LET c == TimeColumn(h.adapter)
  IN  /\ c \in DOMAIN row
      /\ row[c].t = "str"
      /\ IF h.adapter = "fetchCamsSeries"
         THEN row[c].s # <<>> /\ toIsoUtcFromObservationPeriod(row[c].s).ok
         ELSE MatchesPvgisTime(Trim(row[c].s))

\* C18: no partial response.  An adapter that was handed rows either answers with
\* one point for every row (every record of matching field count for CAMS), or the
\* call fails as a whole; when a row's timestamp is missing or unreadable the call
\* fails, the caller gets no data and nothing is written to the cache.
C18_AllRowsOrNothing ==
  \A r \in Slots :
    LET h == handlers[r]
        rows == RawRows(h)
    IN  HasRows(h) =>
          /\ Succeeded(h) \/ Failed(h)
          /\ Succeeded(h) =>
               /\ Len(Points(h)) = Len(rows)
               /\ \A i \in 1..Len(rows) : TimeReadable(h, rows[i])
          /\ (\E i \in 1..Len(rows) : ~TimeReadable(h, rows[i])) =>
               /\ Failed(h)
               /\ "data" \notin DOMAIN h.resp.body
               /\ Calls(h, "cacheSet") = 0
               /\ store = <<>>

C18_Witness ==
  LET h == handlers[1]
  IN  /\ HasRows(h)
      /\ h.adapter = "fetchPvgisTmy"
      /\ Len(RawRows(h)) = 3
      /\ TimeReadable(h, RawRows(h)[1])
      /\ ~TimeReadable(h, RawRows(h)[2])
      /\ Failed(h)
      /\ store = <<>>


\* C19: in every response an adapter emits, the time of every point is an instant
\* and the points are in non-decreasing order of time.
C19_TimesAscending ==
  \A r \in Slots :
    LET h == handlers[r]
    IN  Produced(h) =>
          /\ \A i \in 1..Len(Points(h)) : Points(h)[i].time \in Int
          /\ \A i, j \in 1..Len(Points(h)) : i < j => Points(h)[i].time <= Points(h)[j].time


\* The transport call of the handler is under way; it returned a body; it threw.
InTransport(h) == h.pc \in {"fetching", "backoff"}
Returned(h) == h.pc = "done" /\ h.reply # Absent
GaveUp(h) == h.pc = "done" /\ h.reply = Absent /\ Calls(h, "fetch") > 0

C20_Attempts ==
  \A r \in Slots :
    LET h == handlers[r]
    IN  /\ Calls(h, "fetch") <= 1 + Retries
        /\ Calls(h, "fetchJson") + Calls(h, "fetchText") <= 1
        /\ InTransport(h) => Calls(h, "fetch") = h.attempt + 1
        /\ Returned(h) => Calls(h, "fetch") = h.attempt + 1
        /\ GaveUp(h) => /\ Calls(h, "fetch") = 1 + Retries
                        /\ Failed(h)
                        /\ h.resp.body.error = h.lastErr.error

\* Once the transport call has returned or thrown, the handler issues no attempt.
C20_NoFurtherAttempt ==
  \A r \in Slots :
    handlers[r].pc = "done" => Calls(handlers'[r], "fetch") <= Calls(handlers[r], "fetch")

C20_Terminates == \A r \in Slots : InTransport(handlers[r]) ~> handlers[r].pc = "done"

\* C20: every fetchJson / fetchText call, and so every adapter operation, ends
\* after at most 1 + retries outbound attempts: it returns at the first attempt
\* that succeeds and issues none after it; when every attempt fails it has issued
\* exactly 1 + retries attempts and throws the last error; with retries = 1 that is
\* at most 2 upstream calls.
C20_BoundedAttempts == []C20_Attempts /\ [][C20_NoFurtherAttempt]_vars /\ C20_Terminates

C20_Witness ==
  /\ GaveUp(handlers[1])
  /\ Calls(handlers[1], "fetch") = 2
  /\ handlers[1].attempt = 1

(***************************************************************************)
(* C21: what the retry loop does with an answer outside 2xx.               *)
(***************************************************************************)
IsHttp(o) == o.kind = "http"
Last(seq) == seq[Len(seq)]
Min(a, b) == IF a <= b THEN a ELSE b
Max(a, b) == IF a >= b THEN a ELSE b

\* The head of the message of a non-2xx answer: its status code and status text.
StatusPart(o) == <<"HTTP", " ", ToString(o.status), " ", o.statusText>>

\* The part of the message after the head: what it quotes of the body.
BodyPart(o, message) == SubSeq(message, Len(StatusPart(o)) + 3, Len(message))

\* The message carries the status code of o and the first Min(400, length)
\* characters of o's body, and nothing else of it.
QuotesAnswer(o, message) ==
  /\ Len(message) >= Len(StatusPart(o))
  /\ SubSeq(message, 1, Len(StatusPart(o))) = StatusPart(o)
  /\ IF o.text = <<>>
     THEN message = StatusPart(o)
     ELSE /\ SubSeq(message, Len(StatusPart(o)) + 1, Len(StatusPart(o)) + 2) = <<":", " ">>
          /\ Len(BodyPart(o, message)) = Min(Len(o.text), 400)
          /\ BodyPart(o, message) = SubSeq(o.text, 1, Len(BodyPart(o, message)))

\* C21: an upstream answer outside 2xx is a failed attempt, retried under the
\* policy of a network failure: an answer the loop caught while attempts
\* remained is followed by the backoff and the next attempt whatever its kind,
\* and a handler that gave up has caught 1 + retries answers.  The error the
\* handler then reports is the one of the last attempt; when that attempt was
\* answered outside 2xx it carries the status code of that answer and at most
\* the first 400 characters of its body.
C21_NonOkIsRetried ==
  \A r \in Slots :
    LET h == handlers[r]
    IN  /\ h.pc = "backoff" => Len(h.caught) = h.attempt + 1 /\ h.attempt < Retries
        /\ h.pc = "fetching" => Len(h.caught) = h.attempt
        /\ GaveUp(h) =>
             /\ Len(h.caught) = 1 + Retries
             /\ h.resp.body.error = Attempt(Last(h.caught), AsJson(h)).error
             /\ IsHttp(Last(h.caught)) =>
                  /\ QuotesAnswer(Last(h.caught), h.resp.body.error)
                  /\ Len(BodyPart(Last(h.caught), h.resp.body.error)) <= 400

\* A non-2xx answer was retried, and the last answer had a body of 401 characters.
C21_Witness ==
  /\ GaveUp(handlers[1])
  /\ IsHttp(handlers[1].caught[1])
  /\ handlers[1].caught[1] # Last(handlers[1].caught)
  /\ Last(handlers[1].caught) = LongError
  /\ Len(BodyPart(LongError, handlers[1].resp.body.error)) = 400

(***************************************************************************)
(* Calendar fields of an instant.                                          *)
(***************************************************************************)
\* The civil date of a day number: the inverse of DaysFromCivil.
CivilFromDays(z) ==
  LET z0 == z + 719468
      era == z0 \div 146097
      doe == z0 - era * 146097
      yoe == (doe - doe \div 1460 + doe \div 36524 - doe \div 146096) \div 365
      doy == doe - (365 * yoe + yoe \div 4 - yoe \div 100)
      mp == (5 * doy + 2) \div 153
      d == doy - (153 * mp + 2) \div 5 + 1
      m == IF mp < 10 THEN mp + 3 ELSE mp - 9
  IN  [y |-> yoe + era * 400 + (IF m <= 2 THEN 1 ELSE 0), m |-> m, d |-> d]

\* getUTCFullYear, getUTCMonth() + 1, getUTCDate, getUTCHours, getUTCMinutes of
\* an instant; the seconds of every instant of the model are 0.
getUtcParts(instant) ==
  CivilFromDays(instant \div 1440) @@ [hh |-> (instant % 1440) \div 60, mm |-> instant % 60]

(***************************************************************************)
(* parsePvgisTimeToIsoUtc applied on its own to the texts below.           *)
(***************************************************************************)
TimeYears == {<<"2", "0", "2", "0">>, <<"2", "0", "0", "7">>, <<"0", "0", "5", "0">>,
              <<"2", "0", "2">>, <<"2", "0", "2", "0", "0">>}
TimeMonths == {<<"0", "0">>, <<"0", "2">>, <<"1", "2">>, <<"1", "3">>}
TimeDays == {<<"0", "0">>, <<"0", "1">>, <<"2", "9">>, <<"3", "0">>, <<"3", "2">>}
TimeHours == {<<"0", "0">>, <<"2", "3">>, <<"2", "4">>}
TimeMinutes == {<<"0", "0">>, <<"5", "9">>, <<"6", "0">>}
TimeSeparators == {<<":">>, <<>>, <<"T">>}
TimePaddings == {<<>>, <<" ">>}

TimeTexts ==
  {l \o y \o mo \o d \o c \o hh \o mm \o r :
     l \in TimePaddings, y \in TimeYears, mo \in TimeMonths, d \in TimeDays,
     c \in TimeSeparators, hh \in TimeHours, mm \in TimeMinutes, r \in TimePaddings}

InitTime ==
  /\ store = <<>> /\ now = 0 /\ env = ConfiguredEnv
  /\ handlers = [r \in Slots |-> Idle] /\ started = 0 /\ ticks = 0
  /\ page = NoPage
  /\ calc \in {[fn |-> "parsePvgisTimeToIsoUtc", input |-> t, output |-> Absent] : t \in TimeTexts}

ParseTime ==
  /\ calc.fn = "parsePvgisTimeToIsoUtc"
  /\ calc.output = Absent
  /\ calc' = [calc EXCEPT !.output = parsePvgisTimeToIsoUtc(calc.input)]
  /\ UNCHANGED <<store, now, env, handlers, started, ticks, page>>

SpecTime == InitTime /\ [][ParseTime]_vars

(***************************************************************************)
(* C22: the texts parsePvgisTimeToIsoUtc accepts and the instant it gives. *)
(***************************************************************************)
\* The fields a text of the form YYYYMMDD:HHMM writes.
WrittenParts(s) ==
  [y |-> NumberOfDigits(SubSeq(s, 1, 4)), m |-> NumberOfDigits(SubSeq(s, 5, 6)),
   d |-> NumberOfDigits(SubSeq(s, 7, 8)), hh |-> NumberOfDigits(SubSeq(s, 10, 11)),
   mm |-> NumberOfDigits(SubSeq(s, 12, 13))]

ParsedTime == calc.fn = "parsePvgisTimeToIsoUtc" /\ calc.output # Absent

\* C22: parsePvgisTimeToIsoUtc throws for every text that is not exactly eight
\* digits, a colon and four digits, and for a text of that form returns the UTC
\* instant whose year, month, day, hour and minute are the digits written.
C22_ExactFormOnly ==
  ParsedTime =>
    IF MatchesPvgisTime(calc.input)
    THEN calc.output.ok /\ getUtcParts(calc.output.value) = WrittenParts(calc.input)
    ELSE ~calc.output.ok

(***************************************************************************)
(* The server started on a cache an earlier request has filled.            *)
(***************************************************************************)
\* The requests whose result the cache holds at the start: one of each PVGIS route.
WarmRequests ==
  {Request("tmy", TmyBody(JInt(30), JInt(120))),
   Request("series", PvgisBody(JInt(30), JInt(120), JInt(2020), JInt(2020)))}

InitWarm ==
  /\ env = ConfiguredEnv
  /\ store \in {Served(Route(Arrival(q), <<>>, 0, env).h, env) : q \in WarmRequests}
  /\ now = 0
  /\ handlers = [r \in Slots |-> Idle]
  /\ started = 0
  /\ ticks = 0
  /\ page = NoPage
  /\ calc = NoCall

SpecWarm == InitWarm /\ [][Next]_vars

(***************************************************************************)
(* C28: what a response served from the cache is.                          *)
(***************************************************************************)
Irradiance(h) == h.ep \in {"tmy", "series"}
ServedFromCache(h) == Irradiance(h) /\ Succeeded(h) /\ h.log = <<"cacheGet">>
FreshlyFetched(h) == Irradiance(h) /\ Succeeded(h) /\ Calls(h, "fetch") > 0

\* The step in which a request is served from the cache, and the one in which a
\* fetched response is returned.
C28_Step(r) ==
  LET h == handlers'[r]
      k == h.cacheKey
  IN  /\ (Arrives(r) /\ ServedFromCache(h)) =>
           /\ k \in DOMAIN store
           /\ now <= store[k].expiresAt
           /\ IsCachedCopy(h.resp.body, store[k].value)
           /\ store' = store
           /\ \A r2 \in Slots \ {r} :
                (/\ ServedFromCache(handlers[r2])
                 /\ handlers[r2].cacheKey = k
                 /\ IsCachedCopy(handlers[r2].resp.body, store[k].value)) =>
                   h.resp.body = handlers[r2].resp.body
      /\ (Completes(r) /\ FreshlyFetched(h)) =>
           /\ "cached" \notin DOMAIN h.resp.body.metadata
           /\ store'[k].value = h.resp.body

\* C28: a response the tmy or series route serves from the cache is the stored
\* response with metadata.cached set to true and nothing else changed; a response
\* that was fetched carries no cached flag; serving a hit leaves the store, the
\* entry and its expiry included, as it was; hits repeated on an entry before its
\* expiry return the same data and the entry expires when it would have without
\* them.
C28_HitIsStoredCopy == [][\A r \in Slots : C28_Step(r)]_vars

\* The entry written at time 0 has served two requests, the second one later.
C28_Witness ==
  /\ ServedFromCache(handlers[1])
  /\ ServedFromCache(handlers[2])
  /\ handlers[1].cacheKey = handlers[2].cacheKey
  /\ now > 0
  /\ store[handlers[1].cacheKey].expiresAt = TtlMs(handlers[1])

(***************************************************************************)
(* The page: what it computes from the response it displays.               *)
(*                                                                         *)
(* A response is [metadata, data]; a point of data is [time, ghi, dni,     *)
(* dhi, extras] with time an instant, the three values a JSON number or    *)
(* null and extras a record of JSON values.                                *)
(***************************************************************************)
pageSize == 100

\* Intl.DateTimeFormat("en-US", {timeZone: "Asia/Shanghai", hour12: false, ...}):
\* the wall clock eight hours ahead of UTC.  With hour12: false an engine
\* resolves the hour cycle of en-US to h23 or, as ECMA-402 had it until 2023,
\* to h24, under which the hour after midnight is written 24: hc is the cycle
\* of the engine the page runs on.
HourCycles == {"h23", "h24"}

getChinaParts(instant, hc) ==
  [getUtcParts(instant + 8 * 60) EXCEPT !.hh = IF hc = "h24" /\ @ = 0 THEN 24 ELSE @]

\* The parts in UTC whatever the time mode.
PartsInUtc(timeMode, instant, hc) == getUtcParts(instant)

\* timeMode === "utc" ? getUtcParts(r.time) : getChinaParts(r.time)
PartsIn(timeMode, instant, hc) ==
  IF timeMode = "utc" THEN getUtcParts(instant) ELSE getChinaParts(instant, hc)

DigitChar(d) == CHOOSE c \in Digits : DigitVal(c) = d

\* String(n) of a natural number, one token per digit.
RECURSIVE DigitsOf(_)
DigitsOf(n) == IF n < 10 THEN <<DigitChar(n)>> ELSE DigitsOf(n \div 10) \o <<DigitChar(n % 10)>>

pad2(n) == IF n < 10 THEN <<"0">> \o DigitsOf(n) ELSE DigitsOf(n)

\* `${p.y}-${pad2(p.m)}-${pad2(p.d)}`
dayKeyFromParts(p) == DigitsOf(p.y) \o <<"-">> \o pad2(p.m) \o <<"-">> \o pad2(p.d)

\* typeof r.extras?.[k] === "number" ? r.extras[k] : null
ExtraNumber(r, k) ==
  IF k \in DOMAIN r.extras /\ r.extras[k].t = "num" THEN r.extras[k] ELSE Null

HalvesOr0(v) == IF v.t = "num" THEN Halves(v) ELSE 0

\* The value the monthly sum and the day curve take from a point, in halves,
\* and the field family it comes from.
ChosenValue(r) ==
  LET gb == ExtraNumber(r, "Gb(i)")
      gd == ExtraNumber(r, "Gd(i)")
      gr == ExtraNumber(r, "Gr(i)")
  IN  IF r.ghi.t = "num" THEN [usedKey |-> "ghi", v |-> Halves(r.ghi)]
      ELSE IF gb # Null \/ gd # Null \/ gr # Null
      THEN [usedKey |-> "extras:Gb(i)+Gd(i)+Gr(i)",
            v |-> HalvesOr0(gb) + HalvesOr0(gd) + HalvesOr0(gr)]
      ELSE IF ExtraNumber(r, "Int") # Null
      THEN [usedKey |-> "extras:Int", v |-> Halves(ExtraNumber(r, "Int"))]
      ELSE [usedKey |-> "null", v |-> 0]

\* s / 1000 of a sum held in halves: a fraction.
Thousandth(halves) == [num |-> halves, den |-> 2 * 1000]

\* The body of the loop with usedKey the family of the last point that has a value.
MonthlyStepLastKey(acc, r, timeMode, hc) ==
  LET m == PartsIn(timeMode, r.time, hc).m
      c == ChosenValue(r)
  IN  [sums |-> [acc.sums EXCEPT ![m] = @ + c.v],
       usedKey |-> IF c.usedKey # "null" THEN c.usedKey ELSE acc.usedKey]

\* The body of the loop of monthlySeries: the sums and usedKey after row r.
MonthlyStep(acc, r, timeMode, hc) ==
  LET m == PartsIn(timeMode, r.time, hc).m
      c == ChosenValue(r)
  IN  [sums |-> [acc.sums EXCEPT ![m] = @ + c.v],
       usedKey |-> IF c.usedKey = "ghi" THEN "ghi"
                   ELSE IF c.usedKey # "null" /\ acc.usedKey = "null" THEN c.usedKey
                   ELSE acc.usedKey]

\* for (const r of result.data), rows lo..hi in order: the first half, then the
\* second from where the first ended.
RECURSIVE MonthlyLoop(_, _, _, _, _, _)
MonthlyLoop(rows, lo, hi, acc, timeMode, hc) ==
  IF lo > hi THEN acc
  ELSE IF lo = hi THEN MonthlyStep(acc, rows[lo], timeMode, hc)
  ELSE LET mid == (lo + hi) \div 2
           first == MonthlyLoop(rows, lo, mid, acc, timeMode, hc)
       IN  \* the test has the first half evaluated before the second begins
           IF DOMAIN first.sums = 1..12
           THEN MonthlyLoop(rows, mid + 1, hi, first, timeMode, hc)
           ELSE first

monthlySeries(result, timeMode, hc) ==
  IF result = Null THEN [out |-> <<>>, usedKey |-> "null"]
  ELSE LET l == MonthlyLoop(result.data, 1, Len(result.data),
                            [sums |-> [m \in 1..12 |-> 0], usedKey |-> "null"], timeMode, hc)
       IN  [out |-> [m \in 1..12 |-> [month |-> m, kwh_m2 |-> Thousandth(l.sums[m])]],
            usedKey |-> l.usedKey]

\* The rows among rows that the table shows: those of the chart day when the
\* table follows it, and all of them otherwise.
RowsOfDay(ui, rows) ==
  LET OnDay(r) == dayKeyFromParts(PartsIn(ui.timeMode, r.time, ui.hc)) = ui.chartDay
  IN  IF ~ui.tableFollowChartDay \/ ui.chartDay = <<>> THEN rows ELSE SelectSeq(rows, OnDay)

\* The rows of the table: those of the month filter, and of the chart day when the
\* table follows it.
filteredRows(ui) ==
  IF ui.result = Null THEN <<>>
  ELSE LET InMonth(r) == PartsIn(ui.timeMode, r.time, ui.hc).m = ui.monthFilter
       IN  RowsOfDay(ui, IF ui.monthFilter = 0 THEN ui.result.data
                         ELSE SelectSeq(ui.result.data, InMonth))

\* Math.max(1, Math.ceil(filteredRows.length / pageSize))
totalPages(ui) == Max(1, (Len(filteredRows(ui)) + pageSize - 1) \div pageSize)

\* The effect on [result, monthFilter, timeMode]: the chart day becomes the day of
\* the first row of the filtered month, and the table goes back to page 1.
\* The least index of a set of indices, or 0 of none: rows.find
Find(found) == IF found = {} THEN 0 ELSE CHOOSE i \in found : \A j \in found : i <= j

\* The chart day set to the day of row first, or cleared when there is none.
ChartDayOf(ui, first) ==
  IF first = 0 THEN [ui EXCEPT !.chartDay = <<>>]
  ELSE [ui EXCEPT !.chartDay =
                     dayKeyFromParts(PartsIn(ui.timeMode, ui.result.data[first].time, ui.hc)),
                  !.page = 1]

SyncChartDay(ui) ==
  IF ui.result = Null THEN [ui EXCEPT !.chartDay = <<>>]
  ELSE ChartDayOf(ui, Find({i \in 1..Len(ui.result.data) :
                              ui.monthFilter = 0
                                \/ PartsIn(ui.timeMode, ui.result.data[i].time, ui.hc).m
                                     = ui.monthFilter}))

\* points.sort((a, b) => a.x - b.x), which is stable: a point comes after the
\* points of smaller x and after the earlier points of its own x.
SortByX(points) ==
  LET Rank(i) == Cardinality({j \in DOMAIN points : points[j].x < points[i].x})
                   + Cardinality({j \in 1..i : points[j].x = points[i].x})
  IN  [k \in DOMAIN points |-> points[CHOOSE i \in DOMAIN points : Rank(i) = k]]

\* The curve of the chart day, or null.
dailySeries(ui) ==
  IF ui.result = Null \/ ui.result.data = <<>> \/ ui.chartDay = <<>> THEN Null
  ELSE LET ymd == Split(ui.chartDay, "-")
           yy == NumberOfDigits(ymd[1])
           mm == NumberOfDigits(ymd[2])
           dd == NumberOfDigits(ymd[3])
           shift == IF ui.timeMode = "utc" THEN 0 ELSE 8 * 60
           dayStart == DateUTC(yy, mm - 1, dd, 0, 0) - shift
           dayEnd == DateUTC(yy, mm - 1, dd, 23, 59) - shift
           InDay(r) == r.time >= dayStart /\ r.time <= dayEnd
           dayRows == SelectSeq(ui.result.data, InDay)
           PointOf(r) == LET parts == PartsIn(ui.timeMode, r.time, ui.hc)
                         IN  [x |-> parts.hh * 60 + parts.mm, y |-> ChosenValue(r).v]
       IN  [dateLabel |-> ui.chartDay
                            \o <<IF ui.timeMode = "utc" THEN " (UTC)" ELSE " (CN)">>,
            points |-> SortByX([i \in 1..Len(dayRows) |-> PointOf(dayRows[i])])]

(***************************************************************************)
(* The page: its React state and its event handlers.                       *)
(*                                                                         *)
(* page holds the useState values of App under their names (monthFilter is *)
(* 0 for "all", usedKey and error use Null for null) and, beside them,     *)
(*   hc         the hour cycle of the browser's Intl                       *)
(*   geocoding  handleGeocode is awaiting its reply                        *)
(*   query      the handleQuery call in flight: where it awaits, and the   *)
(*              values its closure captured when the button was clicked    *)
(*   optimals   the loadOptimal calls in flight, each with its canceled    *)
(*              flag                                                       *)
(*   dropped    the replies that reached a canceled loadOptimal call       *)
(*   sent       the irradiance requests issued so far                      *)
(*   clicks     handleQuery / handleGeocode calls so far                   *)
(* A handler runs to its first await in one step, with the effects its     *)
(* state changes trigger; a reply resumes it in another.                   *)
(***************************************************************************)
MaxClicks == 2

NoQuery == [pc |-> "none"]

App(hc) ==
  [hc |-> hc, mode |-> "address", queryType |-> "tmy", address |-> <<>>,
   lat |-> <<>>, lon |-> <<>>, startYear |-> <<"2", "0", "2", "0">>,
   endYear |-> <<"2", "0", "2", "0">>, candidates |-> <<>>, candidateIdx |-> 0,
   loading |-> FALSE, error |-> Null, result |-> Null, optimal |-> Null,
   optimalError |-> Null, confirmLocation |-> FALSE, monthFilter |-> 0,
   timeMode |-> "cn", chartDay |-> <<>>, tableFollowChartDay |-> TRUE, page |-> 1,
   geocoding |-> FALSE, query |-> NoQuery, optimals |-> <<>>, dropped |-> 0,
   sent |-> <<>>, clicks |-> 0]

\* candidates[Number(candidateIdx) ?? 0], or Absent for undefined
selectedCandidate(ui) ==
  IF ui.candidateIdx + 1 \in DOMAIN ui.candidates
  THEN ui.candidates[ui.candidateIdx + 1] ELSE Absent

\* resolvedLat and resolvedLon: a pair of numbers, either of which may be NaN.
resolved(ui) ==
  IF ui.mode = "coords" THEN [lat |-> StrToNumber(ui.lat), lon |-> StrToNumber(ui.lon)]
  ELSE IF selectedCandidate(ui) # Absent
  THEN [lat |-> selectedCandidate(ui).lat, lon |-> selectedCandidate(ui).lon]
  ELSE [lat |-> NaN, lon |-> NaN]

\* A call that writes its reply whatever happened since.
NeverCanceled(call) == FALSE

\* canceled, as the call reads it after its awaits
IsCanceled(call) == call.canceled

\* The effect on [result]: the cleanup of the previous run cancels its call; the
\* summary and its error are cleared; a PVGIS result starts a call for its place.
loadOptimal(ui) ==
  LET cleaned == [i \in 1..Len(ui.optimals) |-> [ui.optimals[i] EXCEPT !.canceled = TRUE]]
      call == [lat |-> ui.result.metadata.lat, lon |-> ui.result.metadata.lon,
               canceled |-> FALSE]
  IN  [ui EXCEPT !.optimal = Null, !.optimalError = Null,
                 !.optimals = IF ui.result # Null /\ ui.result.metadata.source = "pvgis"
                              THEN cleaned \o <<call>> ELSE cleaned]

\* setResult(value) and the effects that depend on result; a value identical to
\* the one held (null on null) is no change and runs no effect.
setResult(ui, value) ==
  IF value = Null /\ ui.result = Null THEN ui
  ELSE loadOptimal(SyncChartDay([ui EXCEPT !.result = value]))

\* catch (e) { setError(e.message) } finally { setLoading(false) }
Fails(ui, message) ==
  [ui EXCEPT !.error = JStr(message), !.loading = FALSE, !.query = NoQuery, !.geocoding = FALSE]

ValidYear(n) == n # NaN /\ ~n.half /\ IsNumberIn(n, 1990, 2100)

YearsValid(ui) == ValidYear(StrToNumber(ui.startYear)) /\ ValidYear(StrToNumber(ui.endYear))

\* handleQuery from the check of the coordinates on: q is the closure of the
\* call, at the place latNum / lonNum.
SendIrradiance(ui, q, place) ==
  IF place.lat = NaN \/ place.lon = NaN
  THEN Fails(ui, <<"missing coordinates">>)
  ELSE IF q.mode = "address" /\ q.candidates > 0 /\ ~q.confirmLocation
  THEN Fails(ui, <<"confirm the candidate first">>)
  ELSE IF q.queryType = "series" /\ ~YearsValid(q)
  THEN Fails(ui, <<"years must be 1990-2100">>)
  ELSE [ui EXCEPT !.query = [q EXCEPT !.pc = "irradiance"],
                  !.sent = @ \o <<[endpoint |-> q.queryType, lat |-> place.lat,
                                   lon |-> place.lon, mode |-> q.mode,
                                   confirmLocation |-> ui.confirmLocation]>>]

\* The values the handleQuery closure reads, as rendered when the button was
\* clicked.
Closure(ui) ==
  [pc |-> "start", mode |-> ui.mode, queryType |-> ui.queryType, address |-> ui.address,
   candidates |-> Len(ui.candidates), confirmLocation |-> ui.confirmLocation,
   startYear |-> ui.startYear, endYear |-> ui.endYear, place |-> resolved(ui)]

QueryDisabled(ui) ==
  ui.loading \/ (ui.mode = "address" /\ Len(ui.candidates) > 0 /\ ~ui.confirmLocation)

\* handleQuery up to its first await.
\* handleQuery after its first setState calls: the inline geocoding when the
\* address mode has no coordinates yet, the irradiance request otherwise.
LocateAndSend(u, q) ==
  IF q.mode = "address" /\ (q.place.lat = NaN \/ q.place.lon = NaN)
  THEN IF Len(Trim(q.address)) < 2 THEN Fails(u, <<"address too short">>)
       ELSE [u EXCEPT !.query = [q EXCEPT !.pc = "geocode"]]
  ELSE SendIrradiance(u, q, q.place)

handleQuery(ui) ==
  LocateAndSend(setResult([ui EXCEPT !.error = Null, !.loading = TRUE, !.page = 1,
                                     !.clicks = @ + 1], Null),
                Closure(ui))

\* handleQuery resumed by the reply to geocodeInline.
InlineGeocoded(ui, reply) ==
  IF ~reply.ok THEN Fails(ui, reply.error)
  ELSE LET u == [ui EXCEPT !.candidates = reply.candidates, !.candidateIdx = 0,
                           !.confirmLocation = FALSE]
           place == IF reply.candidates = <<>> THEN [lat |-> NaN, lon |-> NaN]
                    ELSE [lat |-> reply.candidates[1].lat, lon |-> reply.candidates[1].lon]
       IN  SendIrradiance(u, ui.query, place)

\* handleQuery resumed by the reply to the irradiance request.
IrradianceReplied(ui, reply) ==
  IF reply.ok
  THEN [setResult(ui, reply.body) EXCEPT !.loading = FALSE, !.query = NoQuery]
  ELSE IF ui.query.queryType = "series" /\ reply.years # Absent
  THEN [Fails(ui, <<"available years filled in">>)
          EXCEPT !.startYear = reply.years[1], !.endYear = reply.years[2]]
  ELSE Fails(ui, reply.error)

GeocodeDisabled(ui) == ui.loading \/ Len(Trim(ui.address)) < 2

\* handleGeocode up to its await.
handleGeocode(ui) ==
  [ui EXCEPT !.error = Null, !.loading = TRUE, !.candidates = <<>>, !.candidateIdx = 0,
             !.confirmLocation = FALSE, !.geocoding = TRUE, !.clicks = @ + 1]

\* handleGeocode resumed by its reply.
Geocoded(ui, reply) ==
  IF ~reply.ok THEN Fails(ui, reply.error)
  ELSE [ui EXCEPT !.candidates = reply.candidates,
                  !.error = IF reply.candidates = <<>> THEN JStr(<<"no place found">>) ELSE @,
                  !.loading = FALSE, !.geocoding = FALSE]

\* loadOptimal resumed by the reply to call i.
OptimalReplied(ui, i, reply) ==
  LET call == ui.optimals[i]
      rest == SubSeq(ui.optimals, 1, i - 1) \o SubSeq(ui.optimals, i + 1, Len(ui.optimals))
      u == [ui EXCEPT !.optimals = rest]
  IN  IF IsCanceled(call) THEN [u EXCEPT !.dropped = @ + 1]
      ELSE IF reply.ok
      THEN [u EXCEPT !.optimal = [lat |-> call.lat, lon |-> call.lon,
                                  optimalTiltDeg |-> reply.tilt]]
      ELSE [u EXCEPT !.optimalError = JStr(reply.error)]

(***************************************************************************)
(* What the user does and what the page's own API answers.                 *)
(***************************************************************************)
ServerIdle == UNCHANGED <<store, now, env, handlers, started, ticks, calc>>

SetMode(m) ==
  /\ page.mode # m
  /\ page' = [page EXCEPT !.mode = m]
  /\ ServerIdle

SetQueryType(t) ==
  /\ page.queryType # t
  /\ page' = [page EXCEPT !.queryType = t]
  /\ ServerIdle

SetAddress(a) ==
  /\ page.mode = "address"
  /\ page.address # a
  /\ page' = [page EXCEPT !.address = a, !.confirmLocation = FALSE]
  /\ ServerIdle

SelectCandidate(i) ==
  /\ i + 1 \in DOMAIN page.candidates
  /\ page.candidateIdx # i
  /\ page' = [page EXCEPT !.candidateIdx = i, !.confirmLocation = FALSE]
  /\ ServerIdle

SetConfirmLocation(b) ==
  /\ page.candidates # <<>>
  /\ page.confirmLocation # b
  /\ page' = [page EXCEPT !.confirmLocation = b]
  /\ ServerIdle

ClickGeocode ==
  /\ page.mode = "address"
  /\ ~GeocodeDisabled(page)
  /\ page.clicks < MaxClicks
  /\ page' = handleGeocode(page)
  /\ ServerIdle

GeocodeReplies(reply) ==
  /\ page.geocoding
  /\ page' = Geocoded(page, reply)
  /\ ServerIdle

ClickQuery ==
  /\ ~QueryDisabled(page)
  /\ page.clicks < MaxClicks
  /\ page' = handleQuery(page)
  /\ ServerIdle

InlineGeocodeReplies(reply) ==
  /\ page.query.pc = "geocode"
  /\ page' = InlineGeocoded(page, reply)
  /\ ServerIdle

IrradianceReplies(reply) ==
  /\ page.query.pc = "irradiance"
  /\ page' = IrradianceReplied(page, reply)
  /\ ServerIdle

OptimalReplies(i, reply) ==
  /\ i \in DOMAIN page.optimals
  /\ page' = OptimalReplied(page, i, reply)
  /\ ServerIdle

\* The controls below the monthly chart and above the table, rendered while a
\* result is displayed.
SetMonthFilter(m) ==
  /\ page.result # Null
  /\ page.monthFilter # m
  /\ page' = SyncChartDay([page EXCEPT !.monthFilter = m, !.page = 1])
  /\ ServerIdle

SetTimeMode(t) ==
  /\ page.result # Null
  /\ page.timeMode # t
  /\ page' = SyncChartDay([page EXCEPT !.timeMode = t])
  /\ ServerIdle

SetChartDay(d) ==
  /\ page.result # Null
  /\ page.chartDay # d
  /\ page' = [page EXCEPT !.chartDay = d, !.page = 1]
  /\ ServerIdle

SetTableFollowChartDay(b) ==
  /\ page.result # Null
  /\ page.tableFollowChartDay # b
  /\ page' = [page EXCEPT !.tableFollowChartDay = b, !.page = 1]
  /\ ServerIdle

PrevPage ==
  /\ page.result # Null
  /\ ~(page.page <= 1)
  /\ page' = [page EXCEPT !.page = IF @ - 1 < 1 THEN 1 ELSE @ - 1]
  /\ ServerIdle

NextPage ==
  /\ page.result # Null
  /\ \E last \in {totalPages(page)} :
       /\ ~(page.page >= last)
       /\ page' = [page EXCEPT !.page = IF @ + 1 > last THEN last ELSE @ + 1]
  /\ ServerIdle

(***************************************************************************)
(* Inputs of the page.                                                     *)
(***************************************************************************)
Addresses == {<<>>, <<"a", "b">>, <<"a", "b", "c">>}

Candidate(lat, lon) == [lat |-> JInt(lat), lon |-> JInt(lon), provider |-> "nominatim"]

GeocodeReplySet ==
  {[ok |-> TRUE, candidates |-> <<>>],
   [ok |-> TRUE, candidates |-> <<Candidate(31, 121)>>],
   [ok |-> TRUE, candidates |-> <<Candidate(31, 121), Candidate(32, 122)>>],
   [ok |-> FALSE, error |-> <<"geocode failed">>]}

\* An instant of 2020, from its month, day, hour and minute in UTC.
At(mo, d, hh, mm) == DateUTC(2020, mo - 1, d, hh, mm)

Point(time, ghi, extras) == [time |-> time, ghi |-> ghi, dni |-> Null, dhi |-> Null, extras |-> extras]

NoExtras == [k \in {} |-> Null]

\* The response of the page's API to a request at a place.
UiResponse(place, queryType, source, data) ==
  [metadata |-> [lat |-> place.lat, lon |-> place.lon, source |-> source,
                 queryType |-> queryType, timeRef |-> "UTC"],
   data |-> data]

FailureReplies ==
  {[ok |-> FALSE, error |-> <<"HTTP 502">>, years |-> Absent],
   [ok |-> FALSE, error |-> <<"out of range">>, years |-> <<Y2005, Y2023>>]}

TwoRows == <<Point(At(1, 31, 15, 30), JInt(3), NoExtras), Point(At(1, 31, 16, 30), JInt(4), NoExtras)>>

\* What the API may answer to the request the page sent last.
QueryReplies(ui) ==
  IF ui.sent = <<>> THEN {}
  ELSE {[ok |-> TRUE,
         body |-> UiResponse(Last(ui.sent), Last(ui.sent).endpoint, src, TwoRows)] :
            src \in {"pvgis", "cams"}}
         \cup FailureReplies

OptimalReplySet == {[ok |-> TRUE, tilt |-> JInt(30)], [ok |-> FALSE, error |-> <<"optimal query failed">>]}

InitPage(ui) ==
  /\ store = <<>> /\ now = 0 /\ env = ConfiguredEnv
  /\ handlers = [r \in Slots |-> Idle] /\ started = 0 /\ ticks = 0
  /\ calc = NoCall
  /\ page = ui

\* The lat and lon inputs as the user of the coordinate mode has filled them.
Typed(ui) == [ui EXCEPT !.lat = <<"3", "0">>, !.lon = <<"1", "2", "0">>]

InitQuery == \E hc \in HourCycles : InitPage(Typed(App(hc)))

NextQuery ==
  \/ \E m \in {"address", "coords"} : SetMode(m)
  \/ \E t \in {"tmy", "series"} : SetQueryType(t)
  \/ \E a \in Addresses : SetAddress(a)
  \/ \E i \in 0..1 : SelectCandidate(i)
  \/ \E b \in BOOLEAN : SetConfirmLocation(b)
  \/ ClickGeocode
  \/ \E reply \in GeocodeReplySet : GeocodeReplies(reply)
  \/ ClickQuery
  \/ \E reply \in GeocodeReplySet : InlineGeocodeReplies(reply)
  \/ \E reply \in QueryReplies(page) : IrradianceReplies(reply)
  \/ \E i \in 1..MaxClicks, reply \in OptimalReplySet : OptimalReplies(i, reply)

SpecQuery == InitQuery /\ [][NextQuery]_vars

(***************************************************************************)
(* C27: the confirmation of the candidate in address mode.                 *)
(***************************************************************************)
\* A step that changes the address text, the candidate list or the selected
\* candidate leaves the confirmation flag false.
C27_FlagReset ==
  (\/ page'.address # page.address
   \/ page'.candidates # page.candidates
   \/ page'.candidateIdx # page.candidateIdx) => ~page'.confirmLocation

C27_FlagResetOnChange == [][C27_FlagReset]_vars

\* C27: in address mode an irradiance request is issued only for a candidate
\* the user has confirmed: every request issued in address mode, whose
\* coordinates are a candidate's, was issued while the confirmation flag was true.
C27_OnlyConfirmedCandidate ==
  \A i \in DOMAIN page.sent :
    page.sent[i].mode = "address" => page.sent[i].confirmLocation

(***************************************************************************)
(* C29: the reply to an optimal-summary request of a result no longer      *)
(* displayed.                                                              *)
(***************************************************************************)
RemoveAt(seq, i) == SubSeq(seq, 1, i - 1) \o SubSeq(seq, i + 1, Len(seq))

ForDisplayed(place) ==
  /\ page.result # Null
  /\ page.result.metadata.source = "pvgis"
  /\ place.lat = page.result.metadata.lat
  /\ place.lon = page.result.metadata.lon

\* What is in flight and what is shown belong to the result displayed: a call
\* whose result was replaced or cleared is canceled, and a summary or an error
\* on the page is the one of the result displayed.
C29_OfDisplayedResult ==
  /\ \A i \in DOMAIN page.optimals :
       ~page.optimals[i].canceled => i = Len(page.optimals) /\ ForDisplayed(page.optimals[i])
  /\ page.optimal # Null => ForDisplayed(page.optimal)
  /\ page.optimalError # Null => page.result # Null /\ page.result.metadata.source = "pvgis"

\* The reply that reaches a canceled call, success or error, changes neither
\* optimal nor optimalError.
C29_LateReply ==
  \A i \in DOMAIN page.optimals :
    (page.optimals[i].canceled /\ page'.optimals = RemoveAt(page.optimals, i)) =>
       /\ page'.optimal = page.optimal
       /\ page'.optimalError = page.optimalError
       /\ page'.dropped = page.dropped + 1

\* C29: when the displayed result is replaced or cleared while the
\* optimal-summary request of the previous result is in flight, the reply to
\* that request, success or error, is never written into optimal or optimalError.
C29_LateReplyIgnored == []C29_OfDisplayedResult /\ [][C29_LateReply]_vars

\* A late reply has been dropped while the summary of another result, at another
\* place, is displayed.
C29_Witness ==
  /\ page.dropped > 0
  /\ page.optimal # Null
  /\ page.sent[1].lat # page.optimal.lat

(***************************************************************************)
(* The page with a result on display: the responses it is given.           *)
(***************************************************************************)
\* The shapes of a point: a ghi beside components, components without ghi (one
\* of them missing, Int present), Int alone beside a component that is no number,
\* and no value at all.  k tells the points of a response apart.
Families == {"ghi", "components", "Int", "none"}

Shaped(time, family, k) ==
  CASE family = "ghi" -> Point(time, JInt(k), "Gb(i)" :> JInt(100))
    [] family = "components" ->
         Point(time, Null, "Gb(i)" :> JInt(k) @@ "Gd(i)" :> Half(k) @@ "Int" :> JInt(1))
    [] family = "Int" -> Point(time, Null, "Gb(i)" :> JStr(<<"n/a">>) @@ "Int" :> JInt(k))
    [] family = "none" -> Point(time, Null, "T2m" :> JInt(7))

\* Three points around the midnight that ends January in China: 23:30 on 31
\* January, 00:00 on 1 February (both still 31 January in UTC) and 10:00.
ThreePoints ==
  {<<Shaped(At(1, 31, 15, 30), f1, 1), Shaped(At(1, 31, 16, 0), f2, 2),
     Shaped(At(2, 1, 2, 0), f3, 4)>> : f1 \in Families, f2 \in Families, f3 \in Families}

\* n points from an instant on, step minutes apart.
Every(start, step, n) == [i \in 1..n |-> Point(start + step * (i - 1), JInt(1 + (i % 5)), NoExtras)]

HoursOfTenDays == 240
GapRows == 120

\* Ten days of hourly values across the end of January, and the eight hours from
\* 1 February 00:00 in China, every four minutes, which UTC counts to 31 January.
LongData == {Every(At(1, 27, 0, 0), 60, HoursOfTenDays), Every(At(1, 31, 16, 0), 4, GapRows)}

Datasets == ThreePoints \cup LongData \cup {<<>>}

ViewReplies(ui) ==
  IF ui.sent = <<>> THEN {}
  ELSE {[ok |-> TRUE, body |-> UiResponse(Last(ui.sent), Last(ui.sent).endpoint, "pvgis", d)] :
          d \in Datasets}
         \cup {[ok |-> FALSE, error |-> <<"HTTP 502">>, years |-> Absent]}

ChartDays ==
  {<<>>} \cup {dayKeyFromParts([y |-> 2020, m |-> d[1], d |-> d[2]]) :
                 d \in {<<1, 28>>, <<1, 31>>, <<2, 1>>, <<3, 1>>}}

MonthFilters == 0..3

\* The coordinate mode with both inputs filled.
InCoordsMode(ui) == [Typed(ui) EXCEPT !.mode = "coords"]

\* The page after its first query in coordinate mode has been answered.
InitView ==
  \E hc \in HourCycles :
    \E ui \in {handleQuery(InCoordsMode(App(hc)))} :
      \E reply \in ViewReplies(ui) :
        /\ reply.ok
        /\ \E shown \in {IrradianceReplied(ui, reply)} : InitPage(shown)

NextView ==
  \/ \E m \in MonthFilters : SetMonthFilter(m)
  \/ \E t \in {"cn", "utc"} : SetTimeMode(t)
  \/ \E d \in ChartDays : SetChartDay(d)
  \/ \E b \in BOOLEAN : SetTableFollowChartDay(b)
  \/ PrevPage
  \/ NextPage
  \/ ClickQuery
  \/ \E reply \in ViewReplies(page) : IrradianceReplies(reply)

SpecView == InitView /\ [][NextView]_vars

(***************************************************************************)
(* C30: the page number of the table.                                      *)
(***************************************************************************)
\* C30: after any sequence of queries, month filter changes, time mode
\* switches, chart day changes, follow-chart-day toggles and previous / next
\* clicks, 1 <= page <= totalPages, where totalPages is
\* max(1, ceil(filteredRows / 100)).
C30_PageInRange ==
  /\ totalPages(page) >= 1
  /\ totalPages(page) * pageSize >= Len(filteredRows(page))
  /\ totalPages(page) > 1 => (totalPages(page) - 1) * pageSize < Len(filteredRows(page))
  /\ 1 <= page.page
  /\ page.page <= totalPages(page)

(***************************************************************************)
(* C23, C24: the monthly index and the field family it names.              *)
(***************************************************************************)
IsNum(r, k) == k \in DOMAIN r.extras /\ r.extras[k].t = "num"
Components == {"Gb(i)", "Gd(i)", "Gr(i)"}

\* The family a point contributes by: ghi, else the components, else Int, else none.
FamilyOf(r) ==
  IF r.ghi.t = "num" THEN "ghi"
  ELSE IF \E k \in Components : IsNum(r, k) THEN "extras:Gb(i)+Gd(i)+Gr(i)"
  ELSE IF IsNum(r, "Int") THEN "extras:Int"
  ELSE "null"

RECURSIVE SumOfAvailable(_, _)
SumOfAvailable(r, keys) ==
  IF keys = {} THEN 0
  ELSE LET k == CHOOSE k \in keys : TRUE
       IN  (IF IsNum(r, k) THEN Halves(r.extras[k]) ELSE 0) + SumOfAvailable(r, keys \ {k})

\* What a point contributes, in halves.
Contribution(r) ==
  CASE FamilyOf(r) = "ghi" -> Halves(r.ghi)
    [] FamilyOf(r) = "extras:Gb(i)+Gd(i)+Gr(i)" -> SumOfAvailable(r, Components)
    [] FamilyOf(r) = "extras:Int" -> Halves(r.extras["Int"])
    [] OTHER -> 0

\* The wall-clock month of an instant in the zone of the time mode.
WallMonth(instant, timeMode) ==
  CivilFromDays((instant + (IF timeMode = "utc" THEN 0 ELSE 8 * 60)) \div 1440).m

\* The sum of what the rows lo..hi whose month is m contribute.
RECURSIVE SumOver(_, _, _, _, _)
SumOver(rows, lo, hi, m, timeMode) ==
  IF lo > hi THEN 0
  ELSE IF lo = hi
  THEN (IF WallMonth(rows[lo].time, timeMode) = m THEN Contribution(rows[lo]) ELSE 0)
  ELSE SumOver(rows, lo, (lo + hi) \div 2, m, timeMode)
         + SumOver(rows, (lo + hi) \div 2 + 1, hi, m, timeMode)

Displayed == page.result # Null
Rows == page.result.data
Monthly == monthlySeries(page.result, page.timeMode, page.hc)

\* C23: the monthly index has the twelve entries of months 1..12; entry m is one
\* thousandth of the sum, over the points whose wall-clock month in the selected
\* zone is m, of ghi, else of the components that are there, else of Int; a point
\* with none of them adds nothing; a point whose month differs between UTC and
\* +08:00 counts in its +08:00 month under China time.
C23_MonthlyIndex ==
  Displayed =>
    LET out == Monthly.out
    IN  /\ DOMAIN out = 1..12
        /\ \A m \in 1..12 :
             /\ out[m].month = m
             /\ out[m].kwh_m2.num * 2 * 1000 =
                  SumOver(Rows, 1, Len(Rows), m, page.timeMode) * out[m].kwh_m2.den

\* Under China time, a point that UTC counts to January is counted to February
\* by its components, beside a point that has no value.
C23_Witness ==
  /\ Displayed
  /\ page.timeMode = "cn"
  /\ Len(Rows) = 3
  /\ WallMonth(Rows[2].time, "utc") = 1
  /\ FamilyOf(Rows[2]) = "extras:Gb(i)+Gd(i)+Gr(i)"
  /\ FamilyOf(Rows[3]) = "null"
  /\ Monthly.out[2].kwh_m2 = Thousandth(Contribution(Rows[2]))
  /\ Monthly.out[1].kwh_m2 = Thousandth(Contribution(Rows[1]))
  /\ Contribution(Rows[1]) > 0

Contributing == {i \in DOMAIN Rows : FamilyOf(Rows[i]) # "null"}

\* C24: the family named beside the index is the one family when every point
\* that contributed used it; when they differ it is ghi if any point contributed
\* ghi and otherwise the family of the earliest contributing point; it is null
\* only when no point contributed.
C24_UsedKey ==
  Displayed =>
    LET usedKey == Monthly.usedKey
        families == {FamilyOf(Rows[i]) : i \in Contributing}
        earliest == CHOOSE i \in Contributing : \A j \in Contributing : i <= j
    IN  /\ Cardinality(families) = 1 => usedKey \in families
        /\ "ghi" \in families => usedKey = "ghi"
        /\ (families # {} /\ "ghi" \notin families) => usedKey = FamilyOf(Rows[earliest])
        /\ usedKey = "null" <=> Contributing = {}

\* Families differ, none is ghi, and the earliest one is named, not the last.
C24_Witness ==
  /\ Displayed
  /\ Len(Rows) = 3
  /\ FamilyOf(Rows[1]) = "null"
  /\ FamilyOf(Rows[2]) = "extras:Int"
  /\ FamilyOf(Rows[3]) = "extras:Gb(i)+Gd(i)+Gr(i)"
  /\ Monthly.usedKey = "extras:Int"

(***************************************************************************)
(* C25: the curve of one day.                                              *)
(***************************************************************************)
ZoneShift == IF page.timeMode = "utc" THEN 0 ELSE 8 * 60

\* The calendar day of an instant on the wall clock of the selected zone.
WallDay(instant) ==
  LET c == CivilFromDays((instant + ZoneShift) \div 1440)
  IN  dayKeyFromParts([y |-> c.y, m |-> c.m, d |-> c.d])

\* The rows of the response that lie in the chart day.
OfChartDay == {i \in DOMAIN Rows : WallDay(Rows[i].time) = page.chartDay}

\* A row as a pair of minutes since local midnight and value.
Projected(r) == [x |-> (r.time + ZoneShift) % 1440, y |-> Contribution(r)]

Curve == dailySeries(page)

\* C25: for the chosen day and zone the curve holds exactly the points of the
\* response within the day's wall-clock bounds, each at x = minutes since local
\* midnight with 0 <= x <= 1439, in ascending order of x; with no point in the
\* day the curve is an empty list and no error is raised.
C25_DayCurve ==
  (Displayed /\ Rows # <<>> /\ page.chartDay # <<>>) =>
    LET curve == Curve
    IN  /\ curve # Null
        /\ Len(curve.points) = Cardinality(OfChartDay)
        /\ \A k \in DOMAIN curve.points :
             /\ 0 <= curve.points[k].x
             /\ curve.points[k].x <= 1439
             /\ \E i \in OfChartDay : curve.points[k] = Projected(Rows[i])
        /\ \A i \in OfChartDay : \E k \in DOMAIN curve.points : curve.points[k] = Projected(Rows[i])
        /\ \A k \in DOMAIN curve.points :
             k > 1 => curve.points[k - 1].x <= curve.points[k].x

\* The same on an engine whose hour12: false counts the hours 00..23.
C25_DayCurveFrom00 == page.hc = "h23" => C25_DayCurve

\* A day with no point of the response gives the empty curve.
C25_EmptyDay ==
  /\ Displayed
  /\ Rows # <<>>
  /\ page.chartDay # <<>>
  /\ OfChartDay = {}
  /\ Curve # Null
  /\ Curve.points = <<>>

\* A whole day of hourly points under China time, midnight first.
C25_FullDay ==
  /\ Displayed
  /\ page.timeMode = "cn"
  /\ page.hc = "h23"
  /\ Cardinality(OfChartDay) = 24
  /\ Curve.points[1].x = 0
  /\ Curve.points[24].x = 23 * 60

(***************************************************************************)
(* The CSV export.  A text is a sequence of tokens in which a comma, a     *)
(* double quote and a line feed are tokens of their own.                   *)
(***************************************************************************)
\* String(n) of a number, one token per character.
NumChars(n) ==
  (IF Halves(n) < 0 THEN <<"-">> ELSE <<>>) \o DigitsOf(n.whole)
    \o (IF n.half THEN <<".", "5">> ELSE <<>>)

\* String(value) of a number or a string.
StringOf(value) == IF value.t = "num" THEN NumChars(value) ELSE value.s

\* The time field of a point: toISOString of its instant.
IsoText(instant) ==
  LET p == getUtcParts(instant)
  IN  DigitsOf(p.y) \o <<"-">> \o pad2(p.m) \o <<"-">> \o pad2(p.d) \o <<"T">> \o pad2(p.hh)
        \o <<":">> \o pad2(p.mm) \o <<":">> \o pad2(0) \o <<".", "0", "0", "0", "Z">>

formatChinaTime(instant, hc) ==
  LET parts == getChinaParts(instant, hc)
  IN  DigitsOf(parts.y) \o <<"-">> \o pad2(parts.m) \o <<"-">> \o pad2(parts.d) \o <<"T">>
        \o pad2(parts.hh) \o <<":">> \o pad2(parts.mm) \o <<":">> \o pad2(0)
        \o <<"+", "0", "8", ":", "0", "0">>

\* The cell written for a value that is in no way quoted.
csvCellPlain(value) == IF value \in {Null, Absent} THEN <<>> ELSE StringOf(value)

csvCell(value) ==
  IF value \in {Null, Absent} THEN <<>>
  ELSE LET str == StringOf(value)
       IN  IF \E i \in DOMAIN str : str[i] \in {"\"", ",", "\n"}
           THEN <<"\"">> \o ReplaceAll(str, "\"", <<"\"", "\"">>) \o <<"\"">>
           ELSE str

\* A member of a JSON object.
Member(key, text) == <<"\"", key, "\"", ":">> \o text

Quoted(str) == <<"\"", str, "\"">>

\* JSON.stringify of the metadata with the two export fields after it.
safeJsonStringify(metadata) ==
  <<"{">>
    \o JoinWith(<<Member("source", Quoted(metadata.source)),
                  Member("queryType", Quoted(metadata.queryType)),
                  Member("lat", NumChars(metadata.lat)),
                  Member("lon", NumChars(metadata.lon)),
                  Member("timeRef", Quoted(metadata.timeRef)),
                  Member("exportTimeRef", Quoted("Asia/Shanghai")),
                  Member("exportOffset", Quoted("+08:00"))>>, ",")
    \o <<"}">>

\* The extras columns in the order in which the provider's rows list them.
ExtraColumns == <<"Gb(i)", "Gd(i)", "Gr(i)", "Int", "T2m", "note">>

buildCsv(result, hc) ==
  LET rows == result.data
      InSomeRow(k) == \E i \in DOMAIN rows : k \in DOMAIN rows[i].extras
      extras == SelectSeq(ExtraColumns, InSomeRow)
      names == <<"time_cn", "time_utc", "ghi", "dni", "dhi">> \o extras
      header == JoinWith([j \in DOMAIN names |-> csvCell(JStr(<<names[j]>>))], ",")
      Base(row) ==
        <<csvCell(JStr(formatChinaTime(row.time, hc))), csvCell(JStr(IsoText(row.time))),
          csvCell(row.ghi), csvCell(row.dni), csvCell(row.dhi)>>
          \o [j \in DOMAIN extras |-> csvCell(Get(row.extras, extras[j]))]
      lines == <<header>> \o [i \in DOMAIN rows |-> JoinWith(Base(rows[i]), ",")]
      meta == <<"# metadata=">> \o safeJsonStringify(result.metadata)
  IN  JoinWith(<<meta>> \o lines, "\n")

\* The export button: the CSV of the displayed result is handed to the browser
\* as a download.
DownloadCsv ==
  /\ page.result # Null
  /\ calc' = [fn |-> "downloadText",
              filename |-> <<"irradiance_", page.result.metadata.queryType, "_">>
                             \o NumChars(page.result.metadata.lat) \o <<"_">>
                             \o NumChars(page.result.metadata.lon) \o <<".csv">>,
              text |-> buildCsv(page.result, page.hc)]
  /\ UNCHANGED <<store, now, env, handlers, started, ticks, page>>

(***************************************************************************)
(* The page with a result to export.                                       *)
(***************************************************************************)
Note(str) == "note" :> JStr(str)

\* Rows whose cells need quoting, and values with a sign and a fraction.
QuotedRows ==
  {<<Point(At(1, 31, 15, 30), JInt(-3), Note(<<"a", ",", "b">>)),
     Point(At(1, 31, 16, 0), Half(2), Note(<<"say ", "\"", "hi", "\"">>)),
     Point(At(2, 1, 2, 0), JInt(4), Note(<<"two", "\n", "lines">>))>>,
   <<Point(At(1, 31, 16, 0), Null, Note(<<"\"", ",", "\"", "\n">>)),
     Point(At(12, 31, 16, 0), JInt(7), "note" :> Null)>>}

ExportData == ThreePoints \cup QuotedRows

ExportReplies(ui) ==
  {[ok |-> TRUE, body |-> UiResponse(Last(ui.sent), Last(ui.sent).endpoint, "pvgis", data)] :
     data \in ExportData}

InitExport ==
  \E hc \in HourCycles :
    \E ui \in {handleQuery(InCoordsMode(App(hc)))} :
      \E reply \in ExportReplies(ui) :
        \E shown \in {IrradianceReplied(ui, reply)} : InitPage(shown)

NextExport ==
  \/ \E m \in MonthFilters : SetMonthFilter(m)
  \/ \E t \in {"cn", "utc"} : SetTimeMode(t)
  \/ DownloadCsv

SpecExport == InitExport /\ [][NextExport]_vars

(***************************************************************************)
(* C26: reading the export back.                                           *)
(***************************************************************************)
\* The positions of the token c in s that are outside quotes.
Breaks(s, c) ==
  {i \in DOMAIN s : s[i] = c /\ Cardinality({j \in 1..(i - 1) : s[j] = "\""}) % 2 = 0}

\* s cut at the tokens c that are outside quotes.
Pieces(s, c) ==
  LET b == Breaks(s, c)
      n == Cardinality(b)
      Nth(k) == CHOOSE i \in b : Cardinality({j \in b : j < i}) = k - 1
  IN  [k \in 1..(n + 1) |->
         SubSeq(s, IF k = 1 THEN 1 ELSE Nth(k - 1) + 1, IF k = n + 1 THEN Len(s) ELSE Nth(k) - 1)]

\* A doubled quote read as one.
RECURSIVE Undouble(_)
Undouble(s) ==
  IF Len(s) < 2 THEN s
  ELSE IF s[1] = "\"" /\ s[2] = "\"" THEN <<"\"">> \o Undouble(SubSeq(s, 3, Len(s)))
  ELSE <<s[1]>> \o Undouble(Tail(s))

Unquote(cell) ==
  IF cell # <<>> /\ Head(cell) = "\"" THEN Undouble(SubSeq(cell, 2, Len(cell) - 1)) ELSE cell

\* The records of a CSV text after its leading metadata row.
DecodeCsv(text) ==
  LET body == SubSeq(text, IndexOf(text, "\n") + 1, Len(text))
      lines == Pieces(body, "\n")
  IN  [k \in DOMAIN lines |->
         LET cells == Pieces(lines[k], ",")
         IN  [j \in DOMAIN cells |-> Unquote(cells[j])]]

\* The column of a name in the header.
ColumnOf(header, name) == CHOOSE j \in DOMAIN header : header[j] = <<name>>

\* The sum of the ghi column over the records k.. whose time is in month m.
RECURSIVE Resum(_, _, _, _)
Resum(records, k, m, timeMode) ==
  IF k > Len(records) THEN 0
  ELSE LET time == records[k][ColumnOf(records[1], IF timeMode = "utc" THEN "time_utc" ELSE "time_cn")]
           ghi == records[k][ColumnOf(records[1], "ghi")]
       IN  (IF NumberOfDigits(SubSeq(time, 6, 7)) = m /\ ghi # <<>>
            THEN Halves(StrToNumber(ghi)) ELSE 0)
             + Resum(records, k + 1, m, timeMode)

Downloaded == calc.fn = "downloadText"

\* The re-summed ghi column gives the twelve values of the monthly index.
RoundTrip ==
  LET records == DecodeCsv(calc.text)
      out == Monthly.out
  IN  \A m \in 1..12 :
        Thousandth(Resum(records, 2, m, page.timeMode)) = out[m].kwh_m2

\* C26: decoding the CSV that buildCsv produced for a response (skipping the
\* metadata row, reading the header) and re-summing the ghi column per month
\* yields the twelve values of the monthly index computed from the response in
\* the same time zone.
C26_RoundTrip == Downloaded => RoundTrip

\* Every point that contributes to the index does so by its ghi.
OnlyGhi == \A i \in DOMAIN Rows : FamilyOf(Rows[i]) \in {"ghi", "null"}

\* The same for the responses whose contributing points all have ghi.
C26_RoundTripOfGhi == (Downloaded /\ OnlyGhi) => RoundTrip

\* The export reads back to the rows it was made of: times, ghi and extras.
C26_CellsReadBack ==
  Downloaded =>
    LET records == DecodeCsv(calc.text)
    IN  /\ Len(records) = Len(Rows) + 1
        /\ SubSeq(records[1], 1, 5) = << <<"time_cn">>, <<"time_utc">>, <<"ghi">>, <<"dni">>, <<"dhi">> >>
        /\ \A i \in DOMAIN Rows :
             /\ Len(records[i + 1]) = Len(records[1])
             /\ records[i + 1][2] = IsoText(Rows[i].time)
             /\ records[i + 1][3] = csvCellPlain(Rows[i].ghi)
             /\ \A j \in 6..Len(records[1]) :
                  records[i + 1][j] = csvCellPlain(Get(Rows[i].extras, records[1][j][1]))

\* A downloaded export with quoted cells and a January point read in February.
C26_QuotedExport ==
  /\ Downloaded
  /\ OnlyGhi
  /\ page.timeMode = "cn"
  /\ \E i \in DOMAIN calc.text : calc.text[i] = "\"" /\ i > IndexOf(calc.text, "\n")
  /\ Monthly.out[2].kwh_m2 = Thousandth(2 * 2 + 1 + 2 * 4)

=============================================================================
